---------------------------- MODULE Spec2Model ----------------------------
(***************************************************************************)
(* A model of the MQTT v3.1.1 wire codec (crate `mqtt`): the fixed header  *)
(* and its remaining-length integer, the primitive encodings, the fourteen *)
(* control packets with their constructors, setters, encoders and          *)
(* decoders, and VariablePacket's dispatch over a byte stream.             *)
(*                                                                         *)
(* Bytes are the integers 0..255, byte strings and Rust `String`s are      *)
(* sequences of bytes, `Option<T>` is a sequence of length 0 or 1.  A      *)
(* reader is a byte sequence together with the number of bytes read so     *)
(* far; every decoder returns either [ok |-> TRUE, val, pos] or            *)
(* [ok |-> FALSE, err].  An error is a record whose `tags` lists the       *)
(* nested enum variants from the outermost to the innermost.               *)
(***************************************************************************)
EXTENDS Integers, Sequences, FiniteSets, TLC

VARIABLES
    packet,   \* Spec: the packet value under construction (or NoPacket)
    lastq,    \* Spec: the QoSWithPacketIdentifier last given to new / set_qos
    lastset,  \* Spec: the values last given to the packet's other setters
    fresh,    \* Spec: TRUE while packet is as its constructor returned it
    wire,     \* Spec: the Vec<u8> that encode wrote
    cut,      \* Spec: how many bytes of wire the decoder's reader holds
    res,      \* Spec: typed decoder's and VariablePacket::decode's results
    pc,       \* Spec: "new" -> "built" -> "encoded" -> "decoded", or "panicked"
    stream,   \* SpecStream: the bytes written to the connection so far
    sent,     \* SpecStream: the frames written, in order
    rd,       \* SpecStream: bytes the reader has taken from the stream
    got,      \* SpecStream: the results of the decode / parse calls, in order
    mode,     \* SpecStream: "write", "decode", "parse" or "stopped"
    hdr,      \* SpecFH: the FixedHeader value handed to encode (or NoHeader)
    hbytes,   \* SpecFH: the bytes on the wire
    hres,     \* SpecFH: what FixedHeader::decode / FixedHeader::parse returned
    hpc,      \* SpecFH: "new" -> "bytes" -> "done"
    tstr,     \* SpecTopic: the string given as topic name
    tfil,     \* SpecTopic: the string given as topic filter
    tout,     \* SpecTopic: what the topic operation returned
    tpc,      \* SpecTopic: "start" -> "done"
    csent,    \* SpecCodec: the packets written to the transport, in order
    cwire,    \* SpecCodec: their bytes that the transport still carries
    cbuf,     \* SpecCodec: the bytes buffered for the streaming decoder
    cstate,   \* SpecCodec: the decoder's state, AwaitHeader or AwaitBody
    cout,     \* SpecCodec: the packets the decoder yielded, in order
    clast     \* SpecCodec: the decoder's last answer ("none" once bytes arrived)

pkvars == <<packet, lastq, lastset, fresh, wire, cut, res, pc>>

stvars == <<stream, sent, rd, got, mode>>

fhvars == <<hdr, hbytes, hres, hpc>>

tpvars == <<tstr, tfil, tout, tpc>>

cdvars == <<csent, cwire, cbuf, cstate, cout, clast>>

vars == <<packet, lastq, lastset, fresh, wire, cut, res, pc, stream, sent, rd, got, mode,
          hdr, hbytes, hres, hpc, tstr, tfil, tout, tpc,
          csent, cwire, cbuf, cstate, cout, clast>>

----------------------------------------------------------------------------
(* Generic helpers.                                                        *)

None == <<>>
Some(x) == <<x>>
IsSome(o) == Len(o) = 1
Unwrap(o) == o[1]

Min(a, b) == IF a <= b THEN a ELSE b

Pow2(k) == 2 ^ k

\* The first n bytes of b still unread at position p (n may exceed what is left).
Slice(b, p, n) == SubSeq(b, p + 1, Min(Len(b), p + n))

Ok(v, p) == [ok |-> TRUE, val |-> v, pos |-> p]
Fail(e) == [ok |-> FALSE, err |-> e]

\* Rust's `?` / try!: a failed result is returned at once, a successful one
\* is handed to the rest of the function.
Try(r, Rest(_)) == IF r.ok THEN Rest(r) ELSE r

Err(tags) == [tags |-> tags]
Wrap(tag, e) == [e EXCEPT !.tags = <<tag>> \o e.tags]
Outer(e) == e.tags[1]

\* std::io::ErrorKind::UnexpectedEof, raised by read_u8 / read_u16 / read_exact
\* on a reader that has run out of bytes.
UnexpectedEof == Err(<<"io::UnexpectedEof">>)

----------------------------------------------------------------------------
(* control/packet_type.rs                                                  *)

ControlTypes ==
    << "Connect", "ConnectAcknowledgement", "Publish", "PublishAcknowledgement",
       "PublishReceived", "PublishRelease", "PublishComplete", "Subscribe",
       "SubscribeAcknowledgement", "Unsubscribe", "UnsubscribeAcknowledgement",
       "PingRequest", "PingResponse", "Disconnect" >>

ControlTypeSet == {ControlTypes[i] : i \in 1..Len(ControlTypes)}

\* `control_type as u8`: the discriminants value::CONNECT = 1 .. value::DISCONNECT = 14.
ControlType_value(t) == CHOOSE i \in 1..Len(ControlTypes) : ControlTypes[i] = t

\* The flag tuple (f1, f2, f3, f4) is kept as the nibble f1*8 + f2*4 + f3*2 + f4.
PacketType_new(t, flags) == [control_type |-> t, flags |-> flags]

PacketType_with_default(t) ==
    IF t \in {"PublishRelease", "Subscribe", "Unsubscribe"}
    THEN PacketType_new(t, 2)
    ELSE PacketType_new(t, 0)

PacketType_to_u8(pt) == ControlType_value(pt.control_type) * 16 + pt.flags

\* Variant in which every type requires the nibble 0000.  C11 must fail
\* against it.
vconst_flag_Zero(type_val) == 0

\* The $flag constant of each vconst! arm of from_u8: 0x02 for PUBREL (6),
\* SUBSCRIBE (8) and UNSUBSCRIBE (10), 0x00 for the other arms.
vconst_flag(type_val) == IF type_val \in {6, 8, 10} THEN 2 ELSE 0

\* vconst!(flag, ret): InvalidFlag unless the low nibble is exactly `flag`;
\* the PUBLISH arm takes the four flag bits as they come.
PacketType_from_u8(val) ==
    LET type_val == val \div 16
        flag == val % 16
    IN  IF type_val \in {0, 15}
        THEN Fail([tags |-> <<"PacketTypeError::ReservedType">>, code |-> type_val])
        ELSE IF ControlTypes[type_val] = "Publish"
             THEN Ok(PacketType_new("Publish", flag), 0)
             ELSE IF flag # vconst_flag(type_val)
                  THEN Fail(Err(<<"PacketTypeError::InvalidFlag">>))
                  ELSE Ok(PacketType_new(ControlTypes[type_val], vconst_flag(type_val)), 0)

----------------------------------------------------------------------------
(* control/fixed_header.rs                                                 *)

FixedHeader_new(packet_type, remaining_length) ==
    [packet_type |-> packet_type, remaining_length |-> remaining_length]

\* The loop of FixedHeader::encode: low seven bits first, 0x80 set while more follow.
RECURSIVE EncodeRemainingLength(_)
EncodeRemainingLength(cur_len) ==
    LET byte == cur_len % 128
        rest == cur_len \div 128
    IN  IF rest > 0
        THEN <<byte + 128>> \o EncodeRemainingLength(rest)
        ELSE <<byte>>

FixedHeader_encode(fh) ==
    <<PacketType_to_u8(fh.packet_type)>> \o EncodeRemainingLength(fh.remaining_length)

\* Variant with the thresholds off by one (`>` for `>=`).  C9 must fail
\* against it.
FixedHeader_encoded_length_Off(fh) ==
    LET rem_size ==
            IF fh.remaining_length > 2097152 THEN 4
            ELSE IF fh.remaining_length > 16384 THEN 3
            ELSE IF fh.remaining_length > 128 THEN 2
            ELSE 1
    IN  1 + rem_size

FixedHeader_encoded_length(fh) ==
    LET rem_size ==
            IF fh.remaining_length >= 2097152 THEN 4
            ELSE IF fh.remaining_length >= 16384 THEN 3
            ELSE IF fh.remaining_length >= 128 THEN 2
            ELSE 1
    IN  1 + rem_size

\* Variant without the shift: every length byte lands in the low seven bits.
\* C8 must fail against it.
U32Shl_Dropped(x, k) == x

\* `x << k` in u32 for a byte x and k < 32: the bits shifted past bit 31 are
\* dropped.
U32Shl(x, k) == IF k = 0 THEN x ELSE (x % Pow2(32 - k)) * Pow2(k)

\* One turn of `for i in 0..` of decode_with: `cur |= (byte & 0x7F) << (7 * i)`
\* in u32 (the groups do not overlap, so | is +), then the i >= 4 test, then
\* the continuation test.  `limit` is 4 in the source.
RECURSIVE RemainingLengthLoop(_, _, _, _, _)
RemainingLengthLoop(b, p, i, cur, limit) ==
    IF p >= Len(b)
    THEN Fail(Wrap("FixedHeaderError::IoError", UnexpectedEof))
    ELSE LET byte == b[p + 1]
             cur2 == cur + U32Shl(byte % 128, 7 * i)
         IN  IF i >= limit
             THEN Fail(Err(<<"FixedHeaderError::MalformedRemainingLength">>))
             ELSE IF byte < 128
                  THEN Ok(cur2, p + 1)
                  ELSE RemainingLengthLoop(b, p + 1, i + 1, cur2, limit)

\* Variant that lets a fifth length byte through.  C10 must fail against it.
DecodeRemainingLength_Five(b, p) == RemainingLengthLoop(b, p, 0, 0, 5)

DecodeRemainingLength(b, p) == RemainingLengthLoop(b, p, 0, 0, 4)

\* `match PacketType::from_u8(type_val)` once the remaining length is known:
\* the tail shared by decode_with and parse.
FixedHeader_match(pt, remaining_len, p) ==
    IF pt.ok
    THEN Ok(FixedHeader_new(pt.val, remaining_len), p)
    ELSE IF Outer(pt.err) = "PacketTypeError::ReservedType"
         THEN [ok |-> FALSE,
               err |-> [tags |-> <<"FixedHeaderError::ReservedType">>,
                        code |-> pt.err.code, length |-> remaining_len],
               pos |-> p]
         ELSE Fail(Wrap("FixedHeaderError::PacketTypeError", pt.err))

\* Decodable for FixedHeader (blocking), reading b from its first byte.
FixedHeader_decode_with(b) ==
    IF Len(b) = 0
    THEN Fail(Wrap("FixedHeaderError::IoError", UnexpectedEof))
    ELSE Try(DecodeRemainingLength(b, 1), LAMBDA rl :
             FixedHeader_match(PacketType_from_u8(b[1]), rl.val, rl.pos))

\* The future of FixedHeader::parse resolves to (rdr, header, data); `data`
\* holds every byte read.
WithData(r, b) ==
    IF r.ok THEN [ok |-> TRUE, val |-> r.val, pos |-> r.pos, data |-> SubSeq(b, 1, r.pos)]
    ELSE r

\* FixedHeader::parse (async): one read_exact of one byte per turn of the
\* same loop.
FixedHeader_parse(b) ==
    IF Len(b) = 0
    THEN Fail(Wrap("FixedHeaderError::IoError", UnexpectedEof))
    ELSE WithData(Try(DecodeRemainingLength(b, 1), LAMBDA rl :
                      FixedHeader_match(PacketType_from_u8(b[1]), rl.val, rl.pos)), b)

----------------------------------------------------------------------------
(* std::io::Read on a byte sequence b with p bytes already read            *)
(* (byteorder's read_u8 / read_u16::<BigEndian>, Read::read_exact).         *)

read_u8(b, p) ==
    IF p + 1 <= Len(b) THEN Ok(b[p + 1], p + 1) ELSE Fail(UnexpectedEof)

read_u16(b, p) ==
    IF p + 2 <= Len(b) THEN Ok(b[p + 1] * 256 + b[p + 2], p + 2) ELSE Fail(UnexpectedEof)

\* (n < 0 stands for a wrapped u32 length, longer than any b)
read_exact(b, p, n) ==
    IF n >= 0 /\ p + n <= Len(b) THEN Ok(SubSeq(b, p + 1, p + n), p + n) ELSE Fail(UnexpectedEof)

\* write_u16::<BigEndian>(n as u16)
write_u16(n) == <<(n % 65536) \div 256, n % 256>>

\* Re-tags the error of a failed result, keeps a successful one.
MapErr(r, tag) == IF r.ok THEN r ELSE Fail(Wrap(tag, r.err))

----------------------------------------------------------------------------
(* encodable.rs                                                            *)

\* String::from_utf8 on the byte strings of this model: the bytes below 0x80
\* are ASCII, and a byte 0x80..0xFF never starts a well-formed sequence here.
IsUtf8(bytes) == \A i \in 1..Len(bytes) : bytes[i] < 128

str_encode(str) == write_u16(Len(str)) \o str

str_encoded_length(str) == 2 + Len(str)

\* Encodable for &[u8] / Vec<u8>: a two-byte length, then the bytes.
bytes_encode(bytes) == write_u16(Len(bytes)) \o bytes

\* Variant that forgets the two-byte prefix.  C5 must fail against it.
bytes_encoded_length_Raw(bytes) == Len(bytes)

bytes_encoded_length(bytes) == Len(bytes) + 2

\* String::from_utf8(buf).map_err(StringEncodeError::FromUtf8Error)
from_utf8(r) ==
    IF IsUtf8(r.val) THEN r ELSE Fail(Err(<<"StringEncodeError::FromUtf8Error">>))

String_decode_with(b, p) ==
    Try(MapErr(read_u16(b, p), "StringEncodeError::IoError"), LAMBDA len :
    Try(MapErr(read_exact(b, len.pos, len.val), "StringEncodeError::IoError"), LAMBDA bytes :
    from_utf8(bytes)))

\* Decodable for Vec<u8> with Some(length): two bytes are read and thrown
\* away, then exactly `length` bytes are read.
VecU8_decode_with(b, p, length) ==
    Try(read_u16(b, p), LAMBDA skipped : read_exact(b, skipped.pos, length))

----------------------------------------------------------------------------
(* control/variable_header                                                 *)

PacketIdentifier_encode(pkid) == write_u16(pkid)

PacketIdentifier_encoded_length == 2

PacketIdentifier_decode(b, p) == MapErr(read_u16(b, p), "VariableHeaderError::IoError")

KeepAlive_decode(b, p) == MapErr(read_u16(b, p), "VariableHeaderError::IoError")

\* Decodable for ProtocolName: `?` turns the StringEncodeError into
\* VariableHeaderError::StringEncodeError.
ProtocolName_decode(b, p) ==
    MapErr(String_decode_with(b, p), "VariableHeaderError::StringEncodeError")

ProtocolLevel_from_u8(n) == IF n \in {3, 4, 5} THEN Some(n) ELSE None

ProtocolLevel_decode(b, p) ==
    Try(MapErr(read_u8(b, p), "VariableHeaderError::IoError"), LAMBDA n :
        IF ProtocolLevel_from_u8(n.val) = None
        THEN Fail(Err(<<"VariableHeaderError::InvalidProtocolVersion">>))
        ELSE n)

Bit(flag) == IF flag THEN 1 ELSE 0

ConnectFlags_empty ==
    [user_name |-> FALSE, password |-> FALSE, will_retain |-> FALSE, will_qos |-> 0,
     will_flag |-> FALSE, clean_session |-> FALSE, reserved |-> FALSE]

ConnectFlags_encode(f) ==
    << Bit(f.user_name) * 128 + Bit(f.password) * 64 + Bit(f.will_retain) * 32
       + f.will_qos * 8 + Bit(f.will_flag) * 4 + Bit(f.clean_session) * 2 >>

ConnectFlags_from_code(code) ==
    [user_name |-> (code \div 128) % 2 = 1,
     password |-> (code \div 64) % 2 = 1,
     will_retain |-> (code \div 32) % 2 = 1,
     will_qos |-> (code \div 8) % 4,
     will_flag |-> (code \div 4) % 2 = 1,
     clean_session |-> (code \div 2) % 2 = 1,
     reserved |-> code % 2 = 1]

ConnectFlags_decode(b, p) ==
    Try(MapErr(read_u8(b, p), "VariableHeaderError::IoError"), LAMBDA code :
        IF code.val % 2 # 0
        THEN Fail(Err(<<"VariableHeaderError::InvalidReservedFlag">>))
        ELSE Ok(ConnectFlags_from_code(code.val), code.pos))

ConnackFlags_encode(f) == <<Bit(f.session_present)>>

\* Variant that never looks at the reserved bits.  C22 must fail against it.
ConnackFlags_decode_NoReserved(b, p) ==
    Try(MapErr(read_u8(b, p), "VariableHeaderError::IoError"), LAMBDA code :
        Ok([session_present |-> code.val = 1], code.pos))

ConnackFlags_decode(b, p) ==
    Try(MapErr(read_u8(b, p), "VariableHeaderError::IoError"), LAMBDA code :
        IF code.val \div 2 # 0
        THEN Fail(Err(<<"VariableHeaderError::InvalidReservedFlag">>))
        ELSE Ok([session_present |-> code.val = 1], code.pos))

ConnectReturnCodeNames ==
    << "ConnectionAccepted", "UnacceptableProtocolVersion", "IdentifierRejected",
       "ServiceUnavailable", "BadUserNameOrPassword", "NotAuthorized" >>

ConnectReturnCode_from_u8(code) ==
    IF code <= 5
    THEN [variant |-> ConnectReturnCodeNames[code + 1], r |-> 0]
    ELSE [variant |-> "Reserved", r |-> code]

ConnectReturnCode_to_u8(c) ==
    IF c.variant = "Reserved" THEN c.r
    ELSE CHOOSE i \in 0..5 : ConnectReturnCodeNames[i + 1] = c.variant

ConnectReturnCode_decode(b, p) ==
    Try(MapErr(read_u8(b, p), "VariableHeaderError::IoError"), LAMBDA code :
        Ok(ConnectReturnCode_from_u8(code.val), code.pos))

----------------------------------------------------------------------------
(* packet/mod.rs: conversions into PacketError                             *)

\* impl_from_error_maybe_io!: the IoError variant of `from` becomes
\* PacketError::IoError, any other variant is wrapped in PacketError::<from>.
FromMaybeIo(from, e) ==
    IF Outer(e) = from \o "::IoError"
    THEN [e EXCEPT !.tags = <<"PacketError::IoError">> \o Tail(e.tags)]
    ELSE Wrap("PacketError::" \o from, e)

PacketError_from_FixedHeaderError(e) == FromMaybeIo("FixedHeaderError", e)

PacketError_from_VariableHeaderError(e) == FromMaybeIo("VariableHeaderError", e)

\* `?` on a result whose error is a VariableHeaderError.
TryVariableHeader(r) ==
    IF r.ok THEN r ELSE Fail(PacketError_from_VariableHeaderError(r.err))

\* `.map_err(PacketError::PayloadError)` in the decode_packet of CONNECT,
\* SUBSCRIBE, SUBACK and UNSUBSCRIBE: the payload error is wrapped whole.
PacketError_PayloadError(e) == Wrap("PacketError::PayloadError", e)

----------------------------------------------------------------------------
(* topic_name.rs, topic_filter.rs                                          *)

Slash == 47
Plus == 43
Hash == 35

Dollar == 36

HasByte(str, ch) == \E i \in 1..Len(str) : str[i] = ch

\* Variant that forgets the '+'.  C15 must fail against it.
is_invalid_topic_name_NoPlus(topic_name) ==
    Len(topic_name) = 0 \/ Len(topic_name) > 65535 \/ HasByte(topic_name, Hash)

is_invalid_topic_name(topic_name) ==
    Len(topic_name) = 0 \/ Len(topic_name) > 65535
        \/ HasByte(topic_name, Hash) \/ HasByte(topic_name, Plus)

\* TopicNameError(String): the error carries the rejected string.
TopicNameError(topic_name) == [tags |-> <<"TopicNameError">>, str |-> topic_name]

TopicName_new(topic_name) ==
    IF is_invalid_topic_name(topic_name)
    THEN Fail(TopicNameError(topic_name))
    ELSE Ok(topic_name, 0)

TopicNameRef_new(topic_name) ==
    IF is_invalid_topic_name(topic_name)
    THEN Fail(TopicNameError(topic_name))
    ELSE Ok(topic_name, 0)

\* `?` on String::decode's error inside TopicName::decode_with: the only
\* variant of TopicNameDecodeError it can become is IoError.
TopicNameDecodeError_from(e) ==
    IF Outer(e) = "StringEncodeError::IoError"
    THEN [e EXCEPT !.tags = <<"TopicNameDecodeError::IoError">> \o Tail(e.tags)]
    ELSE Wrap("TopicNameDecodeError::IoError", e)

\* `Ok(TopicName::new(topic_name)?)`: the decoded string at the reader's
\* position, or TopicNameDecodeError::InvalidTopicName(TopicNameError(..)).
TopicName_checked(str) ==
    IF TopicName_new(str.val).ok
    THEN str
    ELSE Fail(Wrap("TopicNameDecodeError::InvalidTopicName", TopicName_new(str.val).err))

\* Decodable for TopicName: String::decode(reader)? then TopicName::new(..)?.
TopicName_decode(b, p) ==
    IF ~String_decode_with(b, p).ok
    THEN Fail(TopicNameDecodeError_from(String_decode_with(b, p).err))
    ELSE Try(String_decode_with(b, p), TopicName_checked)

\* str::split('/'): the pieces between the separators; an empty string has
\* one empty piece.
RECURSIVE SplitLevels(_, _)
SplitLevels(str, acc) ==
    IF Len(str) = 0 THEN <<acc>>
    ELSE IF Head(str) = Slash
         THEN <<acc>> \o SplitLevels(Tail(str), <<>>)
         ELSE SplitLevels(Tail(str), Append(acc, Head(str)))

\* Variant whose character class lets '+' through.  C16 must fail against it.
ClassStop_PlusInClass(topic, i) ==
    CHOOSE k \in (i + 1)..(Len(topic) + 1) :
        /\ k = Len(topic) + 1 \/ topic[k] = Hash
        /\ \A x \in (i + 1)..(k - 1) : topic[x] # Hash

\* Behind the first i bytes of topic, the position of the first byte that
\* [^+#] does not match: a '+', a '#', or the end of topic.
ClassStop(topic, i) ==
    CHOOSE k \in (i + 1)..(Len(topic) + 1) :
        /\ k = Len(topic) + 1 \/ topic[k] \in {Plus, Hash}
        /\ \A x \in (i + 1)..(k - 1) : topic[x] \notin {Plus, Hash}

\* ([^+#]*|\+) matched behind the first i bytes of topic: the numbers of
\* bytes the match can end behind.
RegexLevelEnds(topic, i) ==
    (i..(ClassStop(topic, i) - 1))
        \cup (IF i < Len(topic) /\ topic[i + 1] = Plus THEN {i + 1} ELSE {})

\* One more (/([^+#]*|\+)) behind the ends in front.
RegexNextLevel(topic, front) ==
    UNION {RegexLevelEnds(topic, e + 1) :
              e \in {x \in front : x < Len(topic) /\ topic[x + 1] = Slash}}

RECURSIVE RegexLevels(_, _, _)
\* (/([^+#]*|\+))* : every end that can be reached from the ends in front.
RegexLevels(topic, front, seen) ==
    IF RegexNextLevel(topic, front) \subseteq seen
    THEN seen
    ELSE RegexLevels(topic, RegexNextLevel(topic, front) \ seen,
                     seen \cup RegexNextLevel(topic, front))

\* The ends of  ([^+#]*|\+)(/([^+#]*|\+))*  matched from the start of topic.
RegexBody(topic) ==
    RegexLevels(topic, RegexLevelEnds(topic, 0), RegexLevelEnds(topic, 0))

\* TOPIC_FILTER_VALIDATOR.is_match(topic) for VALIDATE_TOPIC_FILTER_REGEX
\*     ^(([^+#]*|\+)(/([^+#]*|\+))*(/#)?|#)$
\* The body must end at the end of topic, or two bytes before it with "/#"
\* following; or topic is "#".
TopicFilterRegexMatch(topic) ==
    \/ topic = <<Hash>>
    \/ \E e \in RegexBody(topic) :
          \/ e = Len(topic)
          \/ e = Len(topic) - 2 /\ topic[e + 1] = Slash /\ topic[e + 2] = Hash

is_invalid_topic_filter(topic) ==
    Len(topic) = 0 \/ Len(topic) > 65535 \/ ~TopicFilterRegexMatch(topic)

\* TopicFilterError::InvalidTopicFilter(String)
TopicFilter_new(topic) ==
    IF is_invalid_topic_filter(topic)
    THEN Fail([tags |-> <<"TopicFilterError::InvalidTopicFilter">>, str |-> topic])
    ELSE Ok(topic, 0)

\* TopicFilter::new(topic_filter) on the decoded string.
TopicFilter_checked(str) ==
    IF TopicFilter_new(str.val).ok THEN str ELSE Fail(TopicFilter_new(str.val).err)

TopicFilter_decode(b, p) ==
    Try(MapErr(String_decode_with(b, p), "TopicFilterError::StringEncodeError"),
        TopicFilter_checked)

starts_with(str, ch) == Len(str) > 0 /\ str[1] = ch

\* Variant in which a filter that outlasts the name never matches.  C17 must
\* fail against it.
is_match_end_Strict(ft, tn, i) == i > Len(ft) /\ i > Len(tn)

\* The arms of the loop's match in which an iterator has run out:
\* (Some(ft), None), (None, Some(..)) and (None, None).
is_match_end(ft, tn, i) ==
    IF i <= Len(ft) THEN ft[i] = <<Hash>> ELSE i > Len(tn)

RECURSIVE is_match_loop(_, _, _)
\* The loop of is_match, both iterators standing before their i-th level.
is_match_loop(ft, tn, i) ==
    IF i <= Len(ft) /\ i <= Len(tn)
    THEN IF ft[i] = <<Hash>> THEN TRUE
         ELSE IF ft[i] = <<Plus>> THEN is_match_loop(ft, tn, i + 1)
         ELSE IF ft[i] # tn[i] THEN FALSE
         ELSE is_match_loop(ft, tn, i + 1)
    ELSE is_match_end(ft, tn, i)

\* Variant that treats a first level starting with '$' like any other.  C18
\* must fail against it.
is_match_first_NoDollar(first_ft, first_tn) ==
    IF first_ft = <<Hash>> THEN "true"
    ELSE IF first_ft = <<Plus>> THEN "loop"
    ELSE IF first_tn # first_ft THEN "false" ELSE "loop"

\* What the first levels decide: "true" and "false" are returned at once,
\* "loop" goes on to the loop.
is_match_first(first_ft, first_tn) ==
    IF starts_with(first_tn, Dollar)
    THEN IF first_tn # first_ft THEN "false" ELSE "loop"
    ELSE IF first_ft = <<Hash>> THEN "true"
         ELSE IF first_ft = <<Plus>> THEN "loop"
         ELSE IF first_tn # first_ft THEN "false" ELSE "loop"

\* TopicFilterMatcher::is_match on the split filter and topic name.
is_match_levels(ft, tn) ==
    IF is_match_first(ft[1], tn[1]) = "loop"
    THEN is_match_loop(ft, tn, 2)
    ELSE is_match_first(ft[1], tn[1]) = "true"

\* topic_filter.get_matcher().is_match(topic_name)
is_match(topic_filter, topic_name) ==
    is_match_levels(SplitLevels(topic_filter, <<>>), SplitLevels(topic_name, <<>>))

\* From<TopicNameError> for PacketError applied to TopicName::decode's error:
\* a reader failure surfaces as PacketError::IoError, anything else is
\* wrapped in PacketError::TopicNameError.
PacketError_from_TopicNameError(e) ==
    IF Outer(e) = "TopicNameDecodeError::IoError" /\ e.tags[2] = "io::UnexpectedEof"
    THEN [e EXCEPT !.tags = <<"PacketError::IoError">> \o Tail(e.tags)]
    ELSE Wrap("PacketError::TopicNameError", e)

----------------------------------------------------------------------------
(* packet/*.rs: constructors and setters                                   *)

\* `a - b` on u32 where a < b.  The build decides what happens: with overflow
\* checks (debug profile) the thread panics with "attempt to subtract with
\* overflow", reported by the decoders with this mark; without them (release
\* profile) the value wraps to 2^32 - (b - a), for which the decoders keep
\* the negative difference a - b (no reader holds 2^31 bytes).  The
\* parameter `checks` of the decoders is the build's overflow-checks setting.
SubtractOverflow == Err(<<"u32::SubtractOverflow">>)

OverflowChecks == BOOLEAN

OptLen(o) == IF IsSome(o) THEN str_encoded_length(Unwrap(o)) ELSE 0

ConnectPacketPayload_encoded_length(pl) ==
    str_encoded_length(pl.client_identifier) + OptLen(pl.will_topic)
        + OptLen(pl.will_message) + OptLen(pl.user_name) + OptLen(pl.password)

\* ProtocolName, ProtocolLevel, ConnectFlags, KeepAlive, then the payload.
ConnectPacket_calculate_remaining_length(pk) ==
    str_encoded_length(pk.protocol_name) + 1 + 1 + 2
        + ConnectPacketPayload_encoded_length(pk.payload)

ConnectPacket_fix(pk) ==
    [pk EXCEPT !.fixed_header.remaining_length = ConnectPacket_calculate_remaining_length(pk)]

ConnectPacket_with_level(client_identifier, level) ==
    ConnectPacket_fix(
        [name |-> "ConnectPacket",
         fixed_header |-> FixedHeader_new(PacketType_with_default("Connect"), 0),
         protocol_name |-> <<77, 81, 84, 84>>,
         protocol_level |-> level,
         flags |-> ConnectFlags_empty,
         keep_alive |-> 0,
         payload |-> [client_identifier |-> client_identifier, will_topic |-> None,
                      will_message |-> None, user_name |-> None, password |-> None]])

ConnectPacket_new(client_identifier) == ConnectPacket_with_level(client_identifier, 4)

ConnectPacket_set_user_name(pk, name) ==
    ConnectPacket_fix([pk EXCEPT !.flags.user_name = IsSome(name), !.payload.user_name = name])

\* topic_message is None or Some(<<topic, msg>>).
ConnectPacket_set_will(pk, topic_message) ==
    ConnectPacket_fix(
        IF IsSome(topic_message)
        THEN [pk EXCEPT !.flags.will_flag = TRUE,
                        !.payload.will_topic = Some(Unwrap(topic_message)[1]),
                        !.payload.will_message = Some(Unwrap(topic_message)[2])]
        ELSE [pk EXCEPT !.flags.will_flag = FALSE,
                        !.payload.will_topic = None,
                        !.payload.will_message = None])

\* Variant that stores the password and leaves the flag alone.  C19 must
\* fail against it.
ConnectPacket_set_password_NoFlag(pk, password) ==
    ConnectPacket_fix([pk EXCEPT !.payload.password = password])

ConnectPacket_set_password(pk, password) ==
    ConnectPacket_fix([pk EXCEPT !.flags.password = IsSome(password), !.payload.password = password])

ConnectPacket_set_client_identifier(pk, id) ==
    ConnectPacket_fix([pk EXCEPT !.payload.client_identifier = id])

ConnectPacket_set_will_retain(pk, will_retain) == [pk EXCEPT !.flags.will_retain = will_retain]

ConnectPacket_set_will_qos(pk, will_qos) == [pk EXCEPT !.flags.will_qos = will_qos]

ConnectPacket_set_clean_session(pk, clean_session) ==
    [pk EXCEPT !.flags.clean_session = clean_session]

ConnackPacket_new(session_present, ret_code) ==
    [name |-> "ConnackPacket",
     fixed_header |-> FixedHeader_new(PacketType_with_default("ConnectAcknowledgement"), 2),
     flags |-> [session_present |-> session_present],
     code |-> ConnectReturnCode_from_u8(ret_code)]

\* The Vec<VariableHeader> of a ConnackPacket: the flags, then the return code.
ConnackPacket_variable_headers(pk) ==
    << [variant |-> "ConnackFlags", value |-> pk.flags],
       [variant |-> "ConnectReturnCode", value |-> pk.code] >>

\* `_ => panic!("Could not find Connack Flags in variable header")`
NoConnackFlags == [panic |-> "Could not find Connack Flags in variable header"]

\* The call returned v.
Returned(v) == [returned |-> v]

\* `match self.variable_headers[0] { VariableHeader::ConnackFlags(flags) => .. }`
ConnackPacket_session_present(pk) ==
    IF ConnackPacket_variable_headers(pk)[1].variant = "ConnackFlags"
    THEN Returned(ConnackPacket_variable_headers(pk)[1].value.session_present)
    ELSE NoConnackFlags

\* `match self.variable_headers[0] { VariableHeader::ConnectReturnCode(code) => code.0, .. }`
ConnackPacket_return_code(pk) ==
    IF ConnackPacket_variable_headers(pk)[1].variant = "ConnectReturnCode"
    THEN Returned(ConnectReturnCode_to_u8(ConnackPacket_variable_headers(pk)[1].value))
    ELSE NoConnackFlags

\* set_session_present: the packet afterwards, or the panic.
ConnackPacket_set_session_present(pk, session_present) ==
    IF ConnackPacket_variable_headers(pk)[1].variant = "ConnackFlags"
    THEN [pk EXCEPT !.flags.session_present = session_present]
    ELSE NoConnackFlags

\* set_return_code: the packet afterwards, or the panic.
ConnackPacket_set_return_code(pk, code) ==
    IF ConnackPacket_variable_headers(pk)[1].variant = "ConnectReturnCode"
    THEN [pk EXCEPT !.code = ConnectReturnCode_from_u8(code)]
    ELSE NoConnackFlags

\* QoSWithPacketIdentifier: [level |-> 0..2, pkid |-> u16]; pkid is 0 for Level0.
Level0 == [level |-> 0, pkid |-> 0]
Level1(pkid) == [level |-> 1, pkid |-> pkid]
Level2(pkid) == [level |-> 2, pkid |-> pkid]

\* The `match qos` of PublishPacket::new and set_qos: (qos, pkid).
QoSPkid(qos) == IF qos.level = 0 THEN None ELSE Some(qos.pkid)

\* Bitwise or of two nibbles.
BitOr4(a, b) ==
    LET bit(x, k) == (x \div Pow2(k)) % 2
        or(k) == IF bit(a, k) = 1 \/ bit(b, k) = 1 THEN Pow2(k) ELSE 0
    IN  or(0) + or(1) + or(2) + or(3)

OptPkidLen(o) == IF IsSome(o) THEN PacketIdentifier_encoded_length ELSE 0

\* fix_header_remaining_len: topic name + optional packet identifier + payload.
PublishPacket_fix_header_remaining_len(pk) ==
    [pk EXCEPT !.fixed_header.remaining_length =
        str_encoded_length(pk.topic_name) + OptPkidLen(pk.packet_identifier)
            + bytes_encoded_length(pk.payload)]

PublishPacket_new(topic_name, qos, payload) ==
    PublishPacket_fix_header_remaining_len(
        [name |-> "PublishPacket",
         fixed_header |->
            FixedHeader_new(
                PacketType_new("Publish",
                    BitOr4(PacketType_with_default("Publish").flags, (qos.level * 2) % 256)),
                0),
         topic_name |-> topic_name,
         packet_identifier |-> QoSPkid(qos),
         payload |-> payload])

\* `flags & mask != 0`
FlagsAnd(flags, mask) == \E k \in 0..7 : (flags \div Pow2(k)) % 2 = 1 /\ (mask \div Pow2(k)) % 2 = 1

PublishPacket_set_dup(pk, dup) ==
    [pk EXCEPT !.fixed_header.packet_type.flags = BitOr4(@, Bit(dup) * 8)]

\* `flags |= qos << 1; packet_identifier = pkid` and nothing else.
PublishPacket_set_qos(pk, qos) ==
    [pk EXCEPT !.fixed_header.packet_type.flags = BitOr4(@, qos.level * 2),
               !.packet_identifier = QoSPkid(qos)]

PublishPacket_set_retain(pk, ret) ==
    [pk EXCEPT !.fixed_header.packet_type.flags = BitOr4(@, Bit(ret))]

\* `flags & 0x80 != 0`
PublishPacket_dup(pk) == FlagsAnd(pk.fixed_header.packet_type.flags, 128)

\* `flags & 0x01 != 0`
PublishPacket_retain(pk) == FlagsAnd(pk.fixed_header.packet_type.flags, 1)

\* `unreachable!()`: the call panics.
Unreachable == [panic |-> "internal error: entered unreachable code"]

\* No packet identifier: Level0.  Otherwise `(flags & 0x06) >> 1` is matched:
\* 1 and 2 give Level1(pkid) and Level2(pkid), anything else is unreachable!().
PublishPacket_qos(pk) ==
    IF pk.packet_identifier = None THEN Level0
    ELSE CASE (pk.fixed_header.packet_type.flags \div 2) % 4 = 1 ->
                  Level1(Unwrap(pk.packet_identifier))
           [] (pk.fixed_header.packet_type.flags \div 2) % 4 = 2 ->
                  Level2(Unwrap(pk.packet_identifier))
           [] OTHER -> Unreachable

PublishPacket_set_topic_name(pk, topic_name) ==
    PublishPacket_fix_header_remaining_len([pk EXCEPT !.topic_name = topic_name])

PublishPacket_set_payload(pk, payload) ==
    PublishPacket_fix_header_remaining_len([pk EXCEPT !.payload = payload])

\* The packets whose only field besides the fixed header is a packet
\* identifier; impl_variable_packet! pairs each with its control type.
PkidPackets ==
    [PubackPacket |-> "PublishAcknowledgement", PubrecPacket |-> "PublishReceived",
     PubrelPacket |-> "PublishRelease", PubcompPacket |-> "PublishComplete",
     UnsubackPacket |-> "UnsubscribeAcknowledgement"]

\* PubackPacket::new(pkid) and its four siblings.
PkidPacket_new(name, pkid) ==
    [name |-> name,
     fixed_header |-> FixedHeader_new(PacketType_with_default(PkidPackets[name]), 2),
     packet_identifier |-> pkid]

\* set_packet_identifier of the acknowledgement, SUBSCRIBE, SUBACK and
\* UNSUBSCRIBE packets.
set_packet_identifier(pk, pkid) == [pk EXCEPT !.packet_identifier = pkid]

EmptyPackets ==
    [PingreqPacket |-> "PingRequest", PingrespPacket |-> "PingResponse",
     DisconnectPacket |-> "Disconnect"]

\* PingreqPacket::new(), PingrespPacket::new(), DisconnectPacket::new().
EmptyPacket_new(name) ==
    [name |-> name, fixed_header |-> FixedHeader_new(PacketType_with_default(EmptyPackets[name]), 0)]

RECURSIVE SumLen(_, _)
\* fold(0, |b, a| b + a.encoded_length() + extra) over a list of topic filters.
SumLen(filters, extra) ==
    IF Len(filters) = 0 THEN 0
    ELSE str_encoded_length(Head(filters)) + extra + SumLen(Tail(filters), extra)

Filters(subscribes) == [i \in 1..Len(subscribes) |-> subscribes[i].filter]

SubscribePacketPayload_encoded_length(subscribes) == SumLen(Filters(subscribes), 1)

\* subscribes: a sequence of [filter |-> bytes, qos |-> 0..2].
SubscribePacket_new(pkid, subscribes) ==
    [name |-> "SubscribePacket",
     fixed_header |->
        FixedHeader_new(PacketType_with_default("Subscribe"),
            PacketIdentifier_encoded_length + SubscribePacketPayload_encoded_length(subscribes)),
     packet_identifier |-> pkid,
     subscribes |-> subscribes]

\* enum SubscribeReturnCode: the variants and their discriminants.
SubscribeReturnCodes ==
    [MaximumQoSLevel0 |-> 0, MaximumQoSLevel1 |-> 1, MaximumQoSLevel2 |-> 2, Failure |-> 128]

\* `*code as u8`
SubscribeReturnCode_to_u8(c) == SubscribeReturnCodes[c]

\* Variant of the match below that reads 0x01 as MaximumQoSLevel2.  C23 must
\* fail against it.
SubscribeReturnCode_match_Swapped(code) ==
    CASE code = 0 -> "MaximumQoSLevel0"
      [] code = 1 -> "MaximumQoSLevel2"
      [] code = 2 -> "MaximumQoSLevel2"
      [] code = 128 -> "Failure"
      [] OTHER -> "None"

\* The match in SubackPacketPayload::decode_with; "None" stands for the arm
\* that returns the error.
SubscribeReturnCode_match(code) ==
    CASE code = 0 -> "MaximumQoSLevel0"
      [] code = 1 -> "MaximumQoSLevel1"
      [] code = 2 -> "MaximumQoSLevel2"
      [] code = 128 -> "Failure"
      [] OTHER -> "None"

\* subscribes: a sequence of SubscribeReturnCode variants.
SubackPacket_new(pkid, subscribes) ==
    [name |-> "SubackPacket",
     fixed_header |->
        FixedHeader_new(PacketType_with_default("SubscribeAcknowledgement"),
            PacketIdentifier_encoded_length + Len(subscribes)),
     packet_identifier |-> pkid,
     subscribes |-> subscribes]

UnsubscribePacketPayload_encoded_length(subscribes) == SumLen(subscribes, 0)

\* subscribes: a sequence of topic filters.
UnsubscribePacket_new(pkid, subscribes) ==
    [name |-> "UnsubscribePacket",
     fixed_header |->
        FixedHeader_new(PacketType_with_default("Unsubscribe"),
            PacketIdentifier_encoded_length + UnsubscribePacketPayload_encoded_length(subscribes)),
     packet_identifier |-> pkid,
     subscribes |-> subscribes]

----------------------------------------------------------------------------
(* packet/*.rs, packet/mod.rs: encoding                                    *)

RECURSIVE Flatten(_)
Flatten(seqs) == IF Len(seqs) = 0 THEN <<>> ELSE Head(seqs) \o Flatten(Tail(seqs))

OptStr(o) == IF IsSome(o) THEN str_encode(Unwrap(o)) ELSE <<>>

\* What encode_variable_headers writes (for PUBLISH the fields before the payload).
encode_variable_headers(pk) ==
    CASE pk.name = "ConnectPacket" ->
            str_encode(pk.protocol_name) \o <<pk.protocol_level>>
                \o ConnectFlags_encode(pk.flags) \o write_u16(pk.keep_alive)
      [] pk.name = "ConnackPacket" ->
            ConnackFlags_encode(pk.flags) \o <<ConnectReturnCode_to_u8(pk.code)>>
      [] pk.name = "PublishPacket" ->
            str_encode(pk.topic_name)
                \o (IF IsSome(pk.packet_identifier)
                    THEN PacketIdentifier_encode(Unwrap(pk.packet_identifier)) ELSE <<>>)
      [] pk.name \in DOMAIN EmptyPackets -> <<>>
      [] OTHER -> PacketIdentifier_encode(pk.packet_identifier)

encoded_variable_headers_length(pk) ==
    CASE pk.name = "ConnectPacket" -> str_encoded_length(pk.protocol_name) + 1 + 1 + 2
      [] pk.name = "ConnackPacket" -> 1 + 1
      [] pk.name = "PublishPacket" ->
            str_encoded_length(pk.topic_name) + OptPkidLen(pk.packet_identifier)
      [] pk.name \in DOMAIN EmptyPackets -> 0
      [] OTHER -> PacketIdentifier_encoded_length

\* payload_ref().encode(writer)
payload_encode(pk) ==
    CASE pk.name = "ConnectPacket" ->
            str_encode(pk.payload.client_identifier) \o OptStr(pk.payload.will_topic)
                \o OptStr(pk.payload.will_message) \o OptStr(pk.payload.user_name)
                \o OptStr(pk.payload.password)
      [] pk.name = "PublishPacket" -> bytes_encode(pk.payload)
      [] pk.name = "SubscribePacket" ->
            Flatten([i \in 1..Len(pk.subscribes) |->
                        str_encode(pk.subscribes[i].filter) \o <<pk.subscribes[i].qos>>])
      [] pk.name = "SubackPacket" ->
            [i \in 1..Len(pk.subscribes) |-> SubscribeReturnCode_to_u8(pk.subscribes[i])]
      [] pk.name = "UnsubscribePacket" ->
            Flatten([i \in 1..Len(pk.subscribes) |-> str_encode(pk.subscribes[i])])
      [] OTHER -> <<>>

payload_encoded_length(pk) ==
    CASE pk.name = "ConnectPacket" -> ConnectPacketPayload_encoded_length(pk.payload)
      [] pk.name = "PublishPacket" -> bytes_encoded_length(pk.payload)
      [] pk.name = "SubscribePacket" -> SubscribePacketPayload_encoded_length(pk.subscribes)
      [] pk.name = "SubackPacket" -> Len(pk.subscribes)
      [] pk.name = "UnsubscribePacket" -> UnsubscribePacketPayload_encoded_length(pk.subscribes)
      [] OTHER -> 0

\* Encodable for $name :: encode
Packet_encode(pk) ==
    FixedHeader_encode(pk.fixed_header) \o encode_variable_headers(pk) \o payload_encode(pk)

\* Encodable for $name :: encoded_length
Packet_encoded_length(pk) ==
    FixedHeader_encoded_length(pk.fixed_header) + encoded_variable_headers_length(pk)
        + payload_encoded_length(pk)

----------------------------------------------------------------------------
(* packet/*.rs: decode_packet(reader, fixed_header), the reader being b    *)
(* with p bytes already read                                               *)

\* `if need { Some(try!(Decodable::decode(reader))) } else { None }`
DecodeOptString(b, p, need) ==
    IF ~need THEN Ok(None, p)
    ELSE Try(String_decode_with(b, p), LAMBDA str : Ok(Some(str.val), str.pos))

\* try! on a StringEncodeError inside ConnectPacketPayload::decode_with.
TryPayloadString(r) == MapErr(r, "ConnectPacketPayloadError::StringEncodeError")

ConnectPacketPayload_decode_with(b, p, flags) ==
    Try(TryPayloadString(String_decode_with(b, p)), LAMBDA ident :
    Try(TryPayloadString(DecodeOptString(b, ident.pos, flags.will_flag)), LAMBDA topic :
    Try(TryPayloadString(DecodeOptString(b, topic.pos, flags.will_flag)), LAMBDA msg :
    Try(TryPayloadString(DecodeOptString(b, msg.pos, flags.user_name)), LAMBDA uname :
    Try(TryPayloadString(DecodeOptString(b, uname.pos, flags.password)), LAMBDA pwd :
    Ok([client_identifier |-> ident.val, will_topic |-> topic.val, will_message |-> msg.val,
        user_name |-> uname.val, password |-> pwd.val], pwd.pos))))))

\* `.map_err(PacketError::PayloadError)` applied to a payload's result.
MapPayloadError(r) == IF r.ok THEN r ELSE Fail(PacketError_PayloadError(r.err))

ConnectPacket_decode_packet(b, p, fixed_header) ==
    Try(TryVariableHeader(ProtocolName_decode(b, p)), LAMBDA pname :
    Try(TryVariableHeader(ProtocolLevel_decode(b, pname.pos)), LAMBDA level :
    Try(TryVariableHeader(ConnectFlags_decode(b, level.pos)), LAMBDA flags :
    Try(TryVariableHeader(KeepAlive_decode(b, flags.pos)), LAMBDA keep :
    Try(MapPayloadError(ConnectPacketPayload_decode_with(b, keep.pos, flags.val)), LAMBDA payload :
    Ok([name |-> "ConnectPacket", fixed_header |-> fixed_header,
        protocol_name |-> pname.val, protocol_level |-> level.val, flags |-> flags.val,
        keep_alive |-> keep.val, payload |-> payload.val], payload.pos))))))

ConnackPacket_decode_packet(b, p, fixed_header) ==
    Try(TryVariableHeader(ConnackFlags_decode(b, p)), LAMBDA flags :
    Try(TryVariableHeader(ConnectReturnCode_decode(b, flags.pos)), LAMBDA code :
    Ok([name |-> "ConnackPacket", fixed_header |-> fixed_header,
        flags |-> flags.val, code |-> code.val], code.pos)))

\* `?` on the result of TopicName::decode inside PublishPacket::decode_packet.
TryTopicName(r) == IF r.ok THEN r ELSE Fail(PacketError_from_TopicNameError(r.err))

\* `if fixed_header.packet_type.flags & 0x06 != 0 { Some(PacketIdentifier::decode(reader)?) }
\*  else { None }`
DecodeOptPkid(b, p, fixed_header) ==
    IF (fixed_header.packet_type.flags \div 2) % 4 # 0
    THEN Try(TryVariableHeader(PacketIdentifier_decode(b, p)), LAMBDA id :
             Ok(Some(id.val), id.pos))
    ELSE Ok(None, p)

\* `payload_len = remaining_length - vhead_len`, then Vec::<u8>::decode_with
\* with Some(payload_len).
PublishPacket_decode_payload(b, p, fixed_header, vhead_len, checks) ==
    IF checks /\ fixed_header.remaining_length < vhead_len THEN Fail(SubtractOverflow)
    ELSE MapErr(VecU8_decode_with(b, p, fixed_header.remaining_length - vhead_len),
                "PacketError::IoError")

PublishPacket_decode_packet(b, p, fixed_header, checks) ==
    Try(TryTopicName(TopicName_decode(b, p)), LAMBDA topic_name :
    Try(DecodeOptPkid(b, topic_name.pos, fixed_header), LAMBDA packet_identifier :
    Try(PublishPacket_decode_payload(b, packet_identifier.pos, fixed_header,
            str_encoded_length(topic_name.val) + OptPkidLen(packet_identifier.val), checks),
        LAMBDA payload :
    Ok([name |-> "PublishPacket", fixed_header |-> fixed_header,
        topic_name |-> topic_name.val, packet_identifier |-> packet_identifier.val,
        payload |-> payload.val], payload.pos))))

\* PubackPacket::decode_packet and its four siblings.
PkidPacket_decode_packet(name, b, p, fixed_header) ==
    Try(TryVariableHeader(PacketIdentifier_decode(b, p)), LAMBDA packet_identifier :
    Ok([name |-> name, fixed_header |-> fixed_header,
        packet_identifier |-> packet_identifier.val], packet_identifier.pos))

\* PingreqPacket::decode_packet and its two siblings: nothing is read.
EmptyPacket_decode_packet(name, b, p, fixed_header) ==
    Ok([name |-> name, fixed_header |-> fixed_header], p)

\* `while payload_len > 0 { filter; qos byte; payload_len -= filter.encoded_length() + 1 }`
RECURSIVE SubscribePacketPayload_decode_with(_, _, _, _, _)
SubscribePacketPayload_decode_with(b, p, payload_len, subs, checks) ==
    IF payload_len = 0 THEN Ok(subs, p) ELSE
    Try(MapErr(TopicFilter_decode(b, p), "SubscribePacketPayloadError::TopicFilterError"),
        LAMBDA filter :
    Try(MapErr(read_u8(b, filter.pos), "SubscribePacketPayloadError::IoError"), LAMBDA qos :
    IF qos.val > 2 THEN Fail(Err(<<"SubscribePacketPayloadError::InvalidQualityOfService">>)) ELSE
    IF checks /\ payload_len < str_encoded_length(filter.val) + 1
    THEN Fail(SubtractOverflow) ELSE
    SubscribePacketPayload_decode_with(b, qos.pos,
        payload_len - (str_encoded_length(filter.val) + 1),
        Append(subs, [filter |-> filter.val, qos |-> qos.val]), checks)))

\* `for _ in 0..payload_len { read_u8 -> SubscribeReturnCode }`
RECURSIVE SubackPacketPayload_decode_with(_, _, _, _)
SubackPacketPayload_decode_with(b, p, payload_len, subs) ==
    IF payload_len = 0 THEN Ok(subs, p) ELSE
    Try(MapErr(read_u8(b, p), "SubackPacketPayloadError::IoError"), LAMBDA code :
    IF SubscribeReturnCode_match(code.val) = "None"
    THEN Fail([tags |-> <<"SubackPacketPayloadError::InvalidSubscribeReturnCode">>,
               code |-> code.val])
    ELSE SubackPacketPayload_decode_with(b, code.pos, payload_len - 1,
             Append(subs, SubscribeReturnCode_match(code.val))))

\* `while payload_len > 0 { filter; payload_len -= filter.encoded_length() }`
RECURSIVE UnsubscribePacketPayload_decode_with(_, _, _, _, _)
UnsubscribePacketPayload_decode_with(b, p, payload_len, subs, checks) ==
    IF payload_len = 0 THEN Ok(subs, p) ELSE
    Try(MapErr(TopicFilter_decode(b, p), "UnsubscribePacketPayloadError::TopicFilterError"),
        LAMBDA filter :
    IF checks /\ payload_len < str_encoded_length(filter.val) THEN Fail(SubtractOverflow) ELSE
    UnsubscribePacketPayload_decode_with(b, filter.pos,
        payload_len - str_encoded_length(filter.val), Append(subs, filter.val), checks))

\* Payload decode_with of the packet struct `name`, given Some(payload_len).
ListPayload_decode_with(name, b, p, payload_len, checks) ==
    CASE name = "SubscribePacket" ->
            SubscribePacketPayload_decode_with(b, p, payload_len, <<>>, checks)
      [] name = "SubackPacket" -> SubackPacketPayload_decode_with(b, p, payload_len, <<>>)
      [] name = "UnsubscribePacket" ->
            UnsubscribePacketPayload_decode_with(b, p, payload_len, <<>>, checks)

\* The u32 subtraction that went below zero is not a payload error; every
\* other failure of the payload is wrapped by map_err(PacketError::PayloadError).
MapListPayloadError(r) ==
    IF r.ok THEN r
    ELSE IF r.err = SubtractOverflow THEN r ELSE Fail(PacketError_PayloadError(r.err))

\* decode_packet of SUBSCRIBE, SUBACK and UNSUBSCRIBE: the packet identifier,
\* then the payload with Some(remaining_length - 2), its error wrapped by
\* map_err(PacketError::PayloadError).
ListPacket_decode_packet(name, b, p, fixed_header, checks) ==
    Try(TryVariableHeader(PacketIdentifier_decode(b, p)), LAMBDA packet_identifier :
    IF checks /\ fixed_header.remaining_length < PacketIdentifier_encoded_length
    THEN Fail(SubtractOverflow) ELSE
    Try(MapListPayloadError(ListPayload_decode_with(name, b, packet_identifier.pos,
            fixed_header.remaining_length - PacketIdentifier_encoded_length, checks)),
        LAMBDA payload :
    Ok([name |-> name, fixed_header |-> fixed_header,
        packet_identifier |-> packet_identifier.val, subscribes |-> payload.val],
       payload.pos)))

\* <$name as Packet>::decode_packet for the packet struct `name`.
decode_packet(name, b, p, fixed_header, checks) ==
    CASE name = "ConnectPacket" -> ConnectPacket_decode_packet(b, p, fixed_header)
      [] name = "ConnackPacket" -> ConnackPacket_decode_packet(b, p, fixed_header)
      [] name = "PublishPacket" -> PublishPacket_decode_packet(b, p, fixed_header, checks)
      [] name \in DOMAIN PkidPackets -> PkidPacket_decode_packet(name, b, p, fixed_header)
      [] name \in DOMAIN EmptyPackets -> EmptyPacket_decode_packet(name, b, p, fixed_header)
      [] OTHER -> ListPacket_decode_packet(name, b, p, fixed_header, checks)

----------------------------------------------------------------------------
(* packet/mod.rs: the typed decoder and VariablePacket                     *)

\* impl_variable_packet!: `$name => $hdr`, read from the control type.
PacketNames ==
    [Connect |-> "ConnectPacket", ConnectAcknowledgement |-> "ConnackPacket",
     Publish |-> "PublishPacket", PublishAcknowledgement |-> "PubackPacket",
     PublishReceived |-> "PubrecPacket", PublishRelease |-> "PubrelPacket",
     PublishComplete |-> "PubcompPacket", PingRequest |-> "PingreqPacket",
     PingResponse |-> "PingrespPacket", Subscribe |-> "SubscribePacket",
     SubscribeAcknowledgement |-> "SubackPacket", Unsubscribe |-> "UnsubscribePacket",
     UnsubscribeAcknowledgement |-> "UnsubackPacket", Disconnect |-> "DisconnectPacket"]

\* `?` on a result whose error is a FixedHeaderError.
TryFixedHeader(r) ==
    IF r.ok THEN r ELSE Fail(PacketError_from_FixedHeaderError(r.err))

\* Decodable for T: Packet, called as T::decode(reader) on a reader holding b:
\* the fixed header, then T's decode_packet on the same reader.
Packet_decode(name, b, checks) ==
    Try(TryFixedHeader(FixedHeader_decode_with(b)), LAMBDA fixed_header :
        decode_packet(name, b, fixed_header.pos, fixed_header.val, checks))

\* Variant that returns the error without draining the frame's body.  C13
\* must fail against it.
drain_None(b, p, length) == [buf |-> <<>>, pos |-> p]

\* `reader.take(length as u64).read_to_end(&mut buf)`: up to `length` bytes,
\* fewer when the reader ends first, are moved into buf (which the fixed
\* header's error brought empty).
drain(b, p, length) ==
    [buf |-> SubSeq(b, p + 1, Min(Len(b), p + length)), pos |-> Min(Len(b), p + length)]

\* `Err(FixedHeaderError::ReservedType(code, length, mut buf))`: the frame's
\* body is drained into buf and the error is returned with it; every other
\* fixed header error goes through From.
VariablePacket_reserved(b, r) ==
    IF Outer(r.err) = "FixedHeaderError::ReservedType"
    THEN [ok |-> FALSE,
          err |-> [tags |-> <<"PacketError::FixedHeaderError", "FixedHeaderError::ReservedType">>,
                   code |-> r.err.code, length |-> r.err.length,
                   buf |-> drain(b, r.pos, r.err.length).buf],
          pos |-> drain(b, r.pos, r.err.length).pos]
    ELSE Fail(PacketError_from_FixedHeaderError(r.err))

\* reader.take(fixed_header.remaining_length as u64)
take(b, p, n) == SubSeq(b, 1, Min(Len(b), p + n))

\* Decodable for VariablePacket on a reader holding b.  The packet is decoded
\* through reader.take(remaining_length); `pos` of the result is the number
\* of bytes taken from the underlying reader when the call returns.
VariablePacket_decode(b, checks) ==
    IF ~FixedHeader_decode_with(b).ok
    THEN VariablePacket_reserved(b, FixedHeader_decode_with(b))
    ELSE Try(FixedHeader_decode_with(b), LAMBDA fixed_header :
             decode_packet(PacketNames[fixed_header.val.packet_type.control_type],
                           take(b, fixed_header.pos, fixed_header.val.remaining_length),
                           fixed_header.pos, fixed_header.val, checks))

\* The Cursor over the buffer is dropped; the reader handed back has read
\* the header and the whole buffer.
VariablePacket_parsed(r, p) == IF r.ok THEN Ok(r.val, p) ELSE r

\* VariablePacket::parse on a reader holding b: peek (FixedHeader::parse),
\* read_exact of remaining_length bytes into a buffer, decode_packet on a
\* Cursor over that buffer.
VariablePacket_parse(b, checks) ==
    Try(TryFixedHeader(FixedHeader_parse(b)), LAMBDA peek :
    Try(MapErr(read_exact(b, peek.pos, peek.val.remaining_length), "PacketError::IoError"),
        LAMBDA buffer :
    VariablePacket_parsed(
        decode_packet(PacketNames[peek.val.packet_type.control_type], buffer.val, 0, peek.val,
                      checks),
        buffer.pos)))

----------------------------------------------------------------------------
(* The specifications share the variables; each holds the others'          *)
(* variables at these idle values.                                         *)

NoPacket == [name |-> "None"]

NoResult == [op |-> "none"]

NotSet == [dup |-> FALSE, retain |-> FALSE]

NoHeader == [packet_type |-> PacketType_new("None", 0), remaining_length |-> 0]

IdlePacket ==
    /\ packet = NoPacket /\ lastq = Level0 /\ lastset = NotSet /\ fresh = FALSE
    /\ wire = <<>> /\ cut = 0
    /\ res = NoResult /\ pc = "idle"

IdleStream == stream = <<>> /\ sent = <<>> /\ rd = 0 /\ got = <<>> /\ mode = "idle"

IdleHeader == hdr = NoHeader /\ hbytes = <<>> /\ hres = NoResult /\ hpc = "idle"

IdleTopic == tstr = <<>> /\ tfil = <<>> /\ tout = NoResult /\ tpc = "idle"

AwaitHeader == [state |-> "AwaitHeader"]

IdleCodec ==
    /\ csent = <<>> /\ cwire = <<>> /\ cbuf = <<>> /\ cstate = AwaitHeader /\ cout = <<>>
    /\ clast = "idle"

----------------------------------------------------------------------------
(* Spec: the life of one packet value.  A constructor builds it, setters   *)
(* change it in any order, encode writes it to a Vec<u8>, and the typed    *)
(* decoder and VariablePacket::decode read the first `cut` bytes back.     *)

\* Length of the long PUBLISH payload; it pushes the remaining length past
\* one byte.
LongPayload == 126

Zeros(n) == [i \in 1..n |-> 0]

Topics == {<<97>>, <<97, Slash, 98>>}
Payloads == {<<>>, <<72, 105>>, Zeros(LongPayload)}
QoSInputs == {Level0, Level1(10), Level2(258)}
Pkids == {10, 65535}
ClientIds == {<<>>, <<99, 49>>}
OptStrings == {None, Some(<<117>>)}
Passwords == {None, Some(<<112, 119>>)}
Wills == {None, Some(<< <<116>>, <<109>> >>)}
ProtocolLevels == {3, 4}
ReturnCodes == {0, 5, 128}
FilterLists == {<<>>, << <<97, Slash, Hash>> >>, << <<Plus>>, <<97>> >>}
SubscribeLists ==
    { <<>>, << [filter |-> <<97, Slash, Hash>>, qos |-> 1] >>,
      << [filter |-> <<Plus>>, qos |-> 0], [filter |-> <<97>>, qos |-> 2] >> }
ReturnCodeLists == {<<>>, <<"MaximumQoSLevel0">>, <<"MaximumQoSLevel1", "Failure">>}

Init ==
    /\ packet = NoPacket /\ lastq = Level0 /\ lastset = NotSet /\ fresh = FALSE
    /\ wire = <<>> /\ cut = 0
    /\ res = NoResult /\ pc = "new"
    /\ IdleStream /\ IdleHeader /\ IdleTopic /\ IdleCodec

\* A constructor returned p.
Built(p, q) ==
    /\ pc = "new"
    /\ packet' = p /\ lastq' = q /\ fresh' = TRUE /\ pc' = "built"
    /\ UNCHANGED <<lastset, wire, cut, res, stvars, fhvars, tpvars, cdvars>>

\* A setter turned the packet into p.
Changed(p, q) ==
    /\ packet' = p /\ lastq' = q /\ fresh' = FALSE
    /\ UNCHANGED <<lastset, wire, cut, res, pc, stvars, fhvars, tpvars, cdvars>>

\* set_dup or set_retain, given the values in f, turned the packet into p.
ChangedFlag(p, f) ==
    /\ packet' = p /\ lastset' = f /\ fresh' = FALSE
    /\ UNCHANGED <<lastq, wire, cut, res, pc, stvars, fhvars, tpvars, cdvars>>

NewConnect ==
    \/ \E id \in ClientIds : Built(ConnectPacket_new(id), lastq)
    \/ \E id \in ClientIds, level \in ProtocolLevels :
          Built(ConnectPacket_with_level(id, level), lastq)

NewConnack ==
    /\ pc = "new"
    /\ \E sp \in BOOLEAN, code \in ReturnCodes :
          /\ packet' = ConnackPacket_new(sp, code)
          /\ lastset' = [session_present |-> sp, return_code |-> code]
    /\ fresh' = TRUE /\ pc' = "built"
    /\ UNCHANGED <<lastq, wire, cut, res, stvars, fhvars, tpvars, cdvars>>

NewPublish ==
    \E t \in Topics, q \in QoSInputs, pl \in Payloads :
        TopicName_new(t).ok /\ Built(PublishPacket_new(t, q, pl), q)

NewPkidPacket ==
    \E name \in DOMAIN PkidPackets, pkid \in Pkids : Built(PkidPacket_new(name, pkid), lastq)

NewEmptyPacket == \E name \in DOMAIN EmptyPackets : Built(EmptyPacket_new(name), lastq)

NewSubscribe ==
    \E pkid \in Pkids, subs \in SubscribeLists : Built(SubscribePacket_new(pkid, subs), lastq)

NewSuback ==
    \E pkid \in Pkids, codes \in ReturnCodeLists : Built(SubackPacket_new(pkid, codes), lastq)

NewUnsubscribe ==
    \E pkid \in Pkids, subs \in FilterLists : Built(UnsubscribePacket_new(pkid, subs), lastq)

IsBuilt(name) == pc = "built" /\ packet.name = name

SetUserName ==
    /\ IsBuilt("ConnectPacket")
    /\ \E n \in OptStrings : Changed(ConnectPacket_set_user_name(packet, n), lastq)

SetPassword ==
    /\ IsBuilt("ConnectPacket")
    /\ \E n \in Passwords : Changed(ConnectPacket_set_password(packet, n), lastq)

SetWill ==
    /\ IsBuilt("ConnectPacket")
    /\ \E w \in Wills : Changed(ConnectPacket_set_will(packet, w), lastq)

SetClientIdentifier ==
    /\ IsBuilt("ConnectPacket")
    /\ \E id \in ClientIds : Changed(ConnectPacket_set_client_identifier(packet, id), lastq)

SetWillRetain ==
    /\ IsBuilt("ConnectPacket")
    /\ \E r \in BOOLEAN : Changed(ConnectPacket_set_will_retain(packet, r), lastq)

SetWillQos ==
    /\ IsBuilt("ConnectPacket")
    /\ \E q \in 0..2 : Changed(ConnectPacket_set_will_qos(packet, q), lastq)

SetCleanSession ==
    /\ IsBuilt("ConnectPacket")
    /\ \E c \in BOOLEAN : Changed(ConnectPacket_set_clean_session(packet, c), lastq)

\* A setter of ConnackPacket returned p, or panicked: the thread unwinds and
\* the packet is gone with it.
ChangedOrPanicked(p, f) ==
    IF "panic" \in DOMAIN p
    THEN /\ pc' = "panicked" /\ fresh' = FALSE
         /\ UNCHANGED <<packet, lastq, lastset, wire, cut, res, stvars, fhvars, tpvars, cdvars>>
    ELSE ChangedFlag(p, f)

SetSessionPresent ==
    /\ IsBuilt("ConnackPacket")
    /\ \E sp \in BOOLEAN :
          ChangedOrPanicked(ConnackPacket_set_session_present(packet, sp),
                            [lastset EXCEPT !.session_present = sp])

SetReturnCode ==
    /\ IsBuilt("ConnackPacket")
    /\ \E code \in ReturnCodes :
          ChangedOrPanicked(ConnackPacket_set_return_code(packet, code),
                            [lastset EXCEPT !.return_code = code])

SetDup ==
    /\ IsBuilt("PublishPacket")
    /\ \E d \in BOOLEAN :
          ChangedFlag(PublishPacket_set_dup(packet, d), [lastset EXCEPT !.dup = d])

SetQos ==
    /\ IsBuilt("PublishPacket")
    /\ \E q \in QoSInputs : Changed(PublishPacket_set_qos(packet, q), q)

SetRetain ==
    /\ IsBuilt("PublishPacket")
    /\ \E r \in BOOLEAN :
          ChangedFlag(PublishPacket_set_retain(packet, r), [lastset EXCEPT !.retain = r])

SetTopicName ==
    /\ IsBuilt("PublishPacket")
    /\ \E t \in Topics : TopicName_new(t).ok /\ Changed(PublishPacket_set_topic_name(packet, t), lastq)

SetPayload ==
    /\ IsBuilt("PublishPacket")
    /\ \E pl \in Payloads : Changed(PublishPacket_set_payload(packet, pl), lastq)

SetPacketIdentifier ==
    /\ pc = "built"
    /\ packet.name \in DOMAIN PkidPackets
          \cup {"SubscribePacket", "SubackPacket", "UnsubscribePacket"}
    /\ \E pkid \in Pkids : Changed(set_packet_identifier(packet, pkid), lastq)

\* packet.encode(&mut buf) on an empty Vec<u8>.
Encode ==
    /\ pc = "built"
    /\ wire' = Packet_encode(packet)
    /\ pc' = "encoded"
    /\ UNCHANGED <<packet, lastq, lastset, fresh, cut, res, stvars, fhvars, tpvars, cdvars>>

\* T::decode and VariablePacket::decode, each on a fresh Cursor over the
\* first k bytes of the encoding (k = Len(wire): all of it).
Decode ==
    /\ pc = "encoded"
    /\ \E k \in 0..Len(wire), checks \in OverflowChecks :
          /\ cut' = k
          /\ res' = [op |-> "decode",
                     typed |-> Packet_decode(packet.name, SubSeq(wire, 1, k), checks),
                     variable |-> VariablePacket_decode(SubSeq(wire, 1, k), checks)]
    /\ pc' = "decoded"
    /\ UNCHANGED <<packet, lastq, lastset, fresh, wire, stvars, fhvars, tpvars, cdvars>>

Next ==
    \/ NewConnect \/ NewConnack \/ NewPublish \/ NewPkidPacket \/ NewEmptyPacket
    \/ NewSubscribe \/ NewSuback \/ NewUnsubscribe
    \/ SetUserName \/ SetPassword \/ SetWill \/ SetClientIdentifier
    \/ SetWillRetain \/ SetWillQos \/ SetCleanSession
    \/ SetSessionPresent \/ SetReturnCode
    \/ SetDup \/ SetQos \/ SetRetain \/ SetTopicName \/ SetPayload
    \/ SetPacketIdentifier
    \/ Encode \/ Decode

Spec == Init /\ [][Next]_vars

----------------------------------------------------------------------------
(* SpecStream: one connection.  The writer puts up to MaxFrames frames on  *)
(* the stream: packets it encoded, or frames of a peer whose declared      *)
(* remaining length is larger than the fields of the packet.  The reader   *)
(* then calls VariablePacket::decode repeatedly on the same reader, or     *)
(* VariablePacket::parse repeatedly, each call on the reader the previous  *)
(* one returned, until a call fails.                                       *)

MaxFrames == 2

StreamPackets ==
    { PkidPacket_new("PubackPacket", 10),
      EmptyPacket_new("PingreqPacket"),
      ConnackPacket_new(TRUE, 0),
      SubscribePacket_new(10, << [filter |-> <<97, Slash, Hash>>, qos |-> 1] >>),
      PublishPacket_new(<<97>>, Level0, <<72, 105>>) }

\* PUBACK with remaining length 4 (identifier 10 and two more bytes),
\* PINGREQ with remaining length 1, and frames of the reserved types 0 and
\* 15.
PeerFrames == { <<64, 4, 0, 10, 255, 255>>, <<192, 1, 0>>, <<0, 2, 9, 8>>, <<240, 0>> }

InitStream ==
    /\ stream = <<>> /\ sent = <<>> /\ rd = 0 /\ got = <<>> /\ mode = "write"
    /\ IdlePacket /\ IdleHeader /\ IdleTopic /\ IdleCodec

\* packet.encode(&mut stream)
SendPacket ==
    /\ mode = "write" /\ Len(sent) < MaxFrames
    /\ \E p \in StreamPackets :
          /\ stream' = stream \o Packet_encode(p)
          /\ sent' = Append(sent, [pk |-> p, len |-> Len(Packet_encode(p)), peer |-> FALSE])
    /\ UNCHANGED <<rd, got, mode, pkvars, fhvars, tpvars, cdvars>>

\* The peer's bytes arrive on the stream.
ReceiveFrame ==
    /\ mode = "write" /\ Len(sent) < MaxFrames
    /\ \E f \in PeerFrames :
          /\ stream' = stream \o f
          /\ sent' = Append(sent, [pk |-> NoPacket, len |-> Len(f), peer |-> TRUE])
    /\ UNCHANGED <<rd, got, mode, pkvars, fhvars, tpvars, cdvars>>

Unread == SubSeq(stream, rd + 1, Len(stream))

\* The reader after a call that returned r.  A result that tells how far
\* the reader got (a packet, or the error of a drained reserved frame) lets
\* the caller go on; after any other error the caller stops.
AfterCall(r, m) ==
    /\ got' = Append(got, r)
    /\ rd' = IF "pos" \in DOMAIN r THEN rd + r.pos ELSE rd
    /\ mode' = IF "pos" \in DOMAIN r THEN m ELSE "stopped"
    /\ UNCHANGED <<stream, sent, pkvars, fhvars, tpvars, cdvars>>

\* VariablePacket::decode(&mut reader)
DecodeNext ==
    /\ mode \in {"write", "decode"}
    /\ \E checks \in OverflowChecks : AfterCall(VariablePacket_decode(Unread, checks), "decode")

\* VariablePacket::parse(reader)
ParseNext ==
    /\ mode \in {"write", "parse"}
    /\ \E checks \in OverflowChecks : AfterCall(VariablePacket_parse(Unread, checks), "parse")

NextStream == SendPacket \/ ReceiveFrame \/ DecodeNext \/ ParseNext

SpecStream == InitStream /\ [][NextStream]_vars

----------------------------------------------------------------------------
(* SpecFH: the fixed header codec on its own.  A header built by           *)
(* FixedHeader::new is encoded and the bytes are decoded again, or bytes   *)
(* that a peer wrote are decoded.                                          *)

\* Remaining lengths around every length boundary of the variable integer.
RemainingLengths ==
    {0, 1, 127, 128, 321, 16383, 16384, 2097151, 2097152, 268435455}

\* Wire bytes a peer may send: over-long and truncated remaining lengths
\* behind several type bytes, and non-minimal encodings.
PeerTypeBytes == {16, 0, 240, 63, 98}
PeerLengthBytes ==
    { <<128, 128, 128, 128, 2>>, <<255, 255, 255, 255, 7>>,
      <<128, 128, 128, 128>>, <<255, 255, 255, 127>>, <<128, 128, 128, 128, 128, 1>>,
      <<129, 0>>, <<193, 2>>, <<0>>, <<>> }
\* Every type/flag byte, in front of a one-byte remaining length.
TypeFlagBytes == 0..255
PeerHeaders ==
    {<<t>> \o l : t \in PeerTypeBytes, l \in PeerLengthBytes}
        \cup {<<t, 0>> : t \in TypeFlagBytes}

InitFH ==
    /\ IdlePacket /\ IdleStream /\ IdleTopic /\ IdleCodec
    /\ hres = NoResult
    /\ \/ /\ hpc = "new"
          /\ hbytes = <<>>
          /\ \E t \in ControlTypeSet, n \in RemainingLengths :
                hdr = FixedHeader_new(PacketType_with_default(t), n)
       \/ /\ hpc = "bytes"
          /\ hdr = NoHeader
          /\ hbytes \in PeerHeaders

EncodeHeader ==
    /\ hpc = "new"
    /\ hbytes' = FixedHeader_encode(hdr)
    /\ hpc' = "bytes"
    /\ UNCHANGED <<hdr, hres>>
    /\ UNCHANGED <<pkvars, stvars, tpvars, cdvars>>

DecodeHeader ==
    /\ hpc = "bytes"
    /\ hres' = [op |-> "decode", r |-> FixedHeader_decode_with(hbytes)]
    /\ hpc' = "done"
    /\ UNCHANGED <<hdr, hbytes>>
    /\ UNCHANGED <<pkvars, stvars, tpvars, cdvars>>

ParseHeader ==
    /\ hpc = "bytes"
    /\ hres' = [op |-> "parse", r |-> FixedHeader_parse(hbytes)]
    /\ hpc' = "done"
    /\ UNCHANGED <<hdr, hbytes>>
    /\ UNCHANGED <<pkvars, stvars, tpvars, cdvars>>

NextFH == EncodeHeader \/ DecodeHeader \/ ParseHeader

SpecFH == InitFH /\ [][NextFH]_vars

----------------------------------------------------------------------------
(* SpecTopic: topic names and topic filters on their own.  A string is     *)
(* given to TopicName::new, TopicNameRef::new or TopicFilter::new, or is   *)
(* written as a length-prefixed string and decoded as a topic name or      *)
(* filter, or a topic filter's matcher is asked about a topic name.        *)

\* Length of the longest string drawn from TopicAlphabet.
MaxTopicLen == 3

\* 'a', '$', '/', '+', '#'
TopicAlphabet == {97, Dollar, Slash, Plus, Hash}

TopicStrings == UNION {[1..k -> TopicAlphabet] : k \in 0..MaxTopicLen}

\* "$SYS", "/finance//def", "$SYS/x", "$SYS/#", "sport/tennis#",
\* "sport/+/player1", "sport/x/player1", "+/a/#", "a/a/a/a"
ExampleStrings ==
    { <<36, 83, 89, 83>>,
      <<47, 102, 105, 110, 97, 110, 99, 101, 47, 47, 100, 101, 102>>,
      <<36, 83, 89, 83, 47, 120>>,
      <<36, 83, 89, 83, 47, 35>>,
      <<115, 112, 111, 114, 116, 47, 116, 101, 110, 110, 105, 115, 35>>,
      <<115, 112, 111, 114, 116, 47, 43, 47, 112, 108, 97, 121, 101, 114, 49>>,
      <<115, 112, 111, 114, 116, 47, 120, 47, 112, 108, 97, 121, 101, 114, 49>>,
      <<43, 47, 97, 47, 35>>,
      <<97, 47, 97, 47, 97, 47, 97>> }

\* Strings of 65535 and of 65536 bytes: the longest that is accepted and the
\* shortest that is too long.
LongStrings == {[i \in 1..n |-> 97] \o <<>> : n \in {65535, 65536}}

\* What String's encoder can write: its length prefix has sixteen bits.
EncodableStrings == TopicStrings \cup ExampleStrings

InitTopic ==
    /\ tstr = <<>> /\ tfil = <<>> /\ tout = NoResult /\ tpc = "start"
    /\ IdlePacket /\ IdleStream /\ IdleHeader /\ IdleCodec

TopicDone(op, name, filter, r) ==
    /\ tstr' = name /\ tfil' = filter
    /\ tout' = [op |-> op, r |-> r]
    /\ tpc' = "done"
    /\ UNCHANGED <<pkvars, stvars, fhvars, cdvars>>

\* TopicName::new(s)
NewTopicName ==
    /\ tpc = "start"
    /\ \E s \in EncodableStrings \cup LongStrings :
          TopicDone("TopicName::new", s, <<>>, TopicName_new(s))

\* TopicNameRef::new(s)
NewTopicNameRef ==
    /\ tpc = "start"
    /\ \E s \in EncodableStrings \cup LongStrings :
          TopicDone("TopicNameRef::new", s, <<>>, TopicNameRef_new(s))

\* TopicName::decode on a reader that holds the encoded string s
DecodeTopicName ==
    /\ tpc = "start"
    /\ \E s \in EncodableStrings :
          TopicDone("TopicName::decode", s, <<>>, TopicName_decode(str_encode(s), 0))

\* TopicFilter::new(s)
NewTopicFilter ==
    /\ tpc = "start"
    /\ \E s \in EncodableStrings \cup LongStrings :
          TopicDone("TopicFilter::new", <<>>, s, TopicFilter_new(s))

\* TopicFilter::decode on a reader that holds the encoded string s
DecodeTopicFilter ==
    /\ tpc = "start"
    /\ \E s \in EncodableStrings :
          TopicDone("TopicFilter::decode", <<>>, s, TopicFilter_decode(str_encode(s), 0))

\* TopicFilter::new(f).unwrap().get_matcher().is_match(TopicNameRef::new(t).unwrap())
IsMatch ==
    /\ tpc = "start"
    /\ \E f \in EncodableStrings, t \in EncodableStrings :
          /\ TopicFilter_new(f).ok /\ TopicNameRef_new(t).ok
          /\ TopicDone("is_match", t, f, is_match(f, t))

NextTopic ==
    \/ NewTopicName \/ NewTopicNameRef \/ DecodeTopicName
    \/ NewTopicFilter \/ DecodeTopicFilter \/ IsMatch

SpecTopic == InitTopic /\ [][NextTopic]_vars

----------------------------------------------------------------------------
(* SpecPeer: bytes that a peer wrote are handed to one decoder: the flags  *)
(* of CONNECT or CONNACK, a typed decoder T::decode, or                    *)
(* VariablePacket::decode.  The bytes are kept in `wire`, the outcome in   *)
(* `res`.                                                                  *)

\* Every flags byte.
FlagBytes == 0..255

\* The fourteen packet structs.
PacketStructs == {PacketNames[t] : t \in DOMAIN PacketNames}

\* SUBACK frames: return codes of every kind, a byte that is no return
\* code, bytes behind the declared length, a declared length below the
\* packet identifier.
PeerSubacks ==
    { <<144, 5, 0, 10, 0, 2, 128>>, <<144, 3, 0, 10, 1>>, <<144, 2, 0, 10>>,
      <<144, 4, 0, 10, 1, 7>>, <<144, 5, 0, 10, 3, 0, 9>>, <<144, 3, 0, 10, 0, 1, 7>>,
      <<144, 4, 0, 10, 2>>, <<144, 1, 0, 10, 0>>, <<144, 0, 0, 10>> }

\* SUBSCRIBE frames: no, one and two entries, a QoS byte above 2, an entry
\* longer than the declared payload, a declared length below the packet
\* identifier.
PeerSubscribes ==
    { <<130, 2, 0, 10>>, <<130, 6, 0, 10, 0, 1, 97, 1>>,
      <<130, 10, 0, 10, 0, 1, 43, 0, 0, 1, 97, 2>>, <<130, 6, 0, 10, 0, 1, 97, 3>>,
      <<130, 5, 0, 10, 0, 1, 97, 1>>, <<130, 9, 0, 10, 0, 1, 43, 0, 0, 1, 97, 2>>,
      <<130, 6, 0, 10, 0, 1, 97, 1, 0, 1, 98, 0>>, <<130, 7, 0, 10, 0, 1, 97, 1, 0>>,
      <<130, 1, 0, 10, 0, 1, 97, 1>>, <<130, 0, 0, 10>> }

\* UNSUBSCRIBE frames of the same kinds.
PeerUnsubscribes ==
    { <<162, 2, 0, 10>>, <<162, 5, 0, 10, 0, 1, 97>>,
      <<162, 8, 0, 10, 0, 1, 97, 0, 1, 98>>, <<162, 4, 0, 10, 0, 1, 97>>,
      <<162, 7, 0, 10, 0, 1, 97, 0, 1, 98>>, <<162, 5, 0, 10, 0, 1, 97, 0, 1, 98>>,
      <<162, 1, 0, 10, 0, 1, 97>> }

\* PUBLISH frames: payloads with and without the two bytes that the decoder
\* skips, and declared lengths below topic name and packet identifier.
PeerPublishes ==
    { <<48, 5, 0, 1, 97, 0, 0>>, <<48, 7, 0, 1, 97, 0, 2, 72, 105>>,
      <<50, 7, 0, 1, 97, 0, 10, 0, 0>>, <<48, 5, 0, 1, 97, 72, 105>>,
      <<48, 3, 0, 1, 97>>, <<48, 2, 0, 1, 97>>, <<48, 0, 0, 1, 97, 0, 0>>,
      <<50, 4, 0, 1, 97, 0, 10, 0, 0>>, <<52, 3, 0, 1, 97, 0, 10>> }

\* Frames of the types with a fixed body: the remaining length that the
\* type has, and other ones.
PeerFixedBodies ==
    { <<64, 2, 0, 10>>, <<80, 2, 0, 10>>, <<98, 2, 0, 10>>, <<112, 2, 1, 2>>,
      <<176, 2, 255, 255>>, <<64, 4, 0, 10, 255, 255>>, <<80, 3, 0, 10, 0>>,
      <<112, 0, 0, 10>>, <<176, 1, 0, 10>>,
      <<192, 0>>, <<208, 0>>, <<224, 0>>, <<192, 1, 0>>, <<208, 2, 0, 10>>,
      <<224, 1, 7>> }

\* CONNACK and CONNECT frames.
PeerConnacks ==
    { <<32, 2, 1, 0>>, <<32, 2, 0, 5>>, <<32, 2, 2, 0>>, <<32, 2, 0, 6>>,
      <<32, 3, 0, 0, 0>>, <<32, 1, 0, 0>> }

PeerConnects ==
    { <<16, 12, 0, 4, 77, 81, 84, 84, 4, 2, 0, 60, 0, 0>>,
      <<16, 13, 0, 4, 77, 81, 84, 84, 4, 2, 0, 60, 0, 1, 99>>,
      <<16, 10, 0, 4, 77, 81, 84, 84, 4, 2, 0, 60, 0, 0>>,
      <<16, 12, 0, 4, 77, 81, 84, 84, 4, 3, 0, 60, 0, 0>> }

PeerPackets ==
    PeerSubacks \cup PeerSubscribes \cup PeerUnsubscribes \cup PeerPublishes
        \cup PeerFixedBodies \cup PeerConnacks \cup PeerConnects

InitPeer ==
    /\ packet = NoPacket /\ lastq = Level0 /\ lastset = NotSet /\ fresh = FALSE
    /\ wire = <<>> /\ cut = 0
    /\ res = NoResult /\ pc = "peer"
    /\ IdleStream /\ IdleHeader /\ IdleTopic /\ IdleCodec

\* The decoder was called on a reader holding b and returned r.
Answered(b, r) ==
    /\ wire' = b /\ cut' = Len(b) /\ res' = r /\ pc' = "answered"
    /\ UNCHANGED <<packet, lastq, lastset, fresh, stvars, fhvars, tpvars, cdvars>>

\* ConnectFlags::decode on a one-byte reader.
DecodeConnectFlags ==
    /\ pc = "peer"
    /\ \E code \in FlagBytes :
          Answered(<<code>>, [op |-> "ConnectFlags::decode",
                              r |-> ConnectFlags_decode(<<code>>, 0)])

\* ConnackFlags::decode on a one-byte reader.
DecodeConnackFlags ==
    /\ pc = "peer"
    /\ \E code \in FlagBytes :
          Answered(<<code>>, [op |-> "ConnackFlags::decode",
                              r |-> ConnackFlags_decode(<<code>>, 0)])

\* T::decode(reader) for a packet struct T.
DecodeTyped ==
    /\ pc = "peer"
    /\ \E name \in PacketStructs, b \in PeerPackets, checks \in OverflowChecks :
          Answered(b, [op |-> "decode", name |-> name, checks |-> checks,
                       r |-> Packet_decode(name, b, checks)])

\* VariablePacket::decode(reader).
DecodeVariable ==
    /\ pc = "peer"
    /\ \E b \in PeerPackets, checks \in OverflowChecks :
          Answered(b, [op |-> "VariablePacket::decode", checks |-> checks,
                       r |-> VariablePacket_decode(b, checks)])

NextPeer == DecodeConnectFlags \/ DecodeConnackFlags \/ DecodeTyped \/ DecodeVariable

SpecPeer == InitPeer /\ [][NextPeer]_vars

----------------------------------------------------------------------------
(* Properties of one packet value (Spec).                                  *)

EofError == <<"PacketError::IoError", "io::UnexpectedEof">>

DecodedAll == pc = "decoded" /\ cut = Len(wire)

\* C1: a packet built by a constructor, encoded and decoded from all of its
\* bytes, comes back equal from its own decoder and from
\* VariablePacket::decode.
C1_RoundTrip ==
    (DecodedAll /\ fresh) =>
        /\ res.typed.ok /\ res.typed.val = packet
        /\ res.variable.ok /\ res.variable.val = packet

\* C2: the typed decoder, given a strict prefix of a constructor-built
\* packet's encoding, fails with PacketError::IoError(UnexpectedEof) and
\* with nothing else.
C2_TruncationIsEof ==
    (pc = "decoded" /\ fresh /\ cut < Len(wire)) =>
        /\ ~res.typed.ok
        /\ res.typed.err.tags = EofError

\* C5: for a packet as its constructor built it, encode writes exactly
\* encoded_length() bytes, and encoded_length() is the length of the written
\* fixed header (2 to 5 bytes) plus fixed_header.remaining_length.
C5_LengthAgreement ==
    (pc \in {"encoded", "decoded"} /\ fresh) =>
        LET hlen == Len(FixedHeader_encode(packet.fixed_header)) IN
        /\ Len(wire) = Packet_encoded_length(packet)
        /\ hlen \in 2..5
        /\ Packet_encoded_length(packet) = hlen + packet.fixed_header.remaining_length

C5_Witness ==
    /\ pc = "encoded" /\ fresh
    /\ packet.name = "PublishPacket"
    /\ packet.fixed_header.remaining_length >= 128
    /\ Len(wire) = 3 + packet.fixed_header.remaining_length

\* C6: after any sequence of setter calls the stored remaining length is the
\* encoded length of the variable header plus that of the payload.
C6_RemainingLengthAfterSetters ==
    (pc = "built") =>
        packet.fixed_header.remaining_length =
            encoded_variable_headers_length(packet) + payload_encoded_length(packet)

QoSBits(p) == (p.fixed_header.packet_type.flags \div 2) % 4

\* C7: in a PublishPacket, after new and any sequence of set_qos calls, the
\* QoS bits of the flags are zero exactly when no packet identifier is
\* stored, and otherwise are the level last set.
C7_QoSBitsFollowPacketIdentifier ==
    (pc = "built" /\ packet.name = "PublishPacket") =>
        /\ QoSBits(packet) = 0 <=> packet.packet_identifier = None
        /\ IsSome(packet.packet_identifier) => QoSBits(packet) = lastq.level

----------------------------------------------------------------------------
(* Properties of a stream of frames (SpecStream).                          *)

RECURSIVE FramesLength(_, _)
\* Total length of the first n frames written.
FramesLength(frames, n) ==
    IF n = 0 THEN 0 ELSE frames[n].len + FramesLength(frames, n - 1)

\* C3: when VariablePacket::decode returns a packet, the reader stands right
\* behind that frame (fixed header plus declared remaining length), also
\* when the packet's fields are shorter than the declared length.
C3_DecodeConsumesWholeFrame ==
    (mode = "decode" /\ Len(got) <= Len(sent)) =>
        rd = FramesLength(sent, Len(got))

AllEncoded == \A i \in 1..Len(sent) : ~sent[i].peer

\* C4: a stream of encoded packets is returned packet by packet, in the
\* order written, by repeated decode (or parse) calls, and the call after
\* the last packet fails with the end-of-input IO error.
C4_StreamInOrder ==
    (AllEncoded /\ mode \in {"decode", "parse", "stopped"}) =>
        \A i \in 1..Len(got) :
            /\ i <= Len(sent) => got[i].ok /\ got[i].val = sent[i].pk
            /\ i = Len(sent) + 1 => ~got[i].ok /\ got[i].err.tags = EofError

\* The bytes of the i-th frame on the stream.
FrameBytes(i) == SubSeq(stream, FramesLength(sent, i - 1) + 1, FramesLength(sent, i))

\* The frame's body: what follows its fixed header.
FrameBody(i) ==
    SubSeq(FrameBytes(i),
           Len(FrameBytes(i)) - DecodeRemainingLength(FrameBytes(i), 1).val + 1,
           Len(FrameBytes(i)))

ReservedFrame(i) == FrameBytes(i)[1] \div 16 \in {0, 15}

RECURSIVE ReadBefore(_)
\* Where the reader stood when the i-th call was made.
ReadBefore(i) == IF i = 1 THEN 0 ELSE got[i - 1].pos + ReadBefore(i - 1)

DrainedBytes(e) == IF "buf" \in DOMAIN e THEN e.buf ELSE <<>>

\* Equal packets at equal stream positions, or errors of the same PacketError
\* kind, with equal type code and drained bytes when a reserved type is
\* reported.
SameOutcome(x, y) ==
    /\ x.ok = y.ok
    /\ x.ok => x.val = y.val /\ x.pos = y.pos
    /\ ~x.ok =>
          /\ Outer(x.err) = Outer(y.err)
          /\ ("code" \in DOMAIN x.err \/ "code" \in DOMAIN y.err) =>
                /\ x.err.tags = y.err.tags
                /\ x.err.code = y.err.code
                /\ DrainedBytes(x.err) = DrainedBytes(y.err)

\* C14: whatever the stream holds, the first call on it has the same outcome
\* whether it is the blocking VariablePacket::decode or the asynchronous
\* VariablePacket::parse: the same packet and stream position, or the same
\* kind of error (for a reserved type, with the same code and drained bytes).
C14_ParseAgreesWithDecode ==
    (Len(got) = 1 /\ mode \in {"decode", "parse", "stopped"}) =>
        \A checks \in OverflowChecks :
            /\ SameOutcome(got[1], VariablePacket_decode(stream, checks))
            /\ SameOutcome(got[1], VariablePacket_parse(stream, checks))

----------------------------------------------------------------------------
(* Properties of the fixed header (SpecFH).                                *)

HeaderDone == hpc = "done" /\ hdr # NoHeader

\* C8: for every packet type with default flags and every remaining length
\* below 2^28, decoding the bytes FixedHeader::encode wrote gives back the
\* same packet type and remaining length; (Connect, 321) is written as
\* 10 C1 02.
C8_FixedHeaderRoundTrip ==
    /\ (hpc = "done" /\ hdr # NoHeader /\ hres.op = "decode") =>
          /\ hres.r.ok
          /\ hres.r.val.packet_type = hdr.packet_type
          /\ hres.r.val.remaining_length = hdr.remaining_length
    /\ (hpc # "new" /\ hdr = FixedHeader_new(PacketType_with_default("Connect"), 321)) =>
          hbytes = <<16, 193, 2>>

C8_Witness ==
    /\ hpc = "done" /\ hres.op = "decode"
    /\ hdr = FixedHeader_new(PacketType_with_default("Subscribe"), 268435455)
    /\ hbytes = <<130, 255, 255, 255, 127>>
    /\ hres.r.ok

\* Number of remaining-length bytes the protocol prescribes for n.
RemainingLengthBytes(n) ==
    IF n < 128 THEN 1 ELSE IF n < 16384 THEN 2 ELSE IF n < 2097152 THEN 3 ELSE 4

\* C9: after the type byte FixedHeader::encode writes 1, 2, 3 or 4
\* remaining-length bytes according to the range of n, all but the last with
\* bit 0x80 set and the last without it, and that count is
\* encoded_length() - 1.
C9_RemainingLengthSize ==
    (hpc # "new" /\ hdr # NoHeader) =>
        LET k == Len(hbytes) - 1 IN
        /\ k = RemainingLengthBytes(hdr.remaining_length)
        /\ \A i \in 2..Len(hbytes) - 1 : hbytes[i] >= 128
        /\ hbytes[Len(hbytes)] < 128
        /\ k = FixedHeader_encoded_length(hdr) - 1

C9_Witness ==
    /\ hpc = "bytes" /\ hdr # NoHeader
    /\ hdr.remaining_length = 128
    /\ Len(hbytes) = 3

\* The first four remaining-length bytes of b all carry 0x80 and a fifth follows.
NeedsFifthByte(b) == Len(b) >= 6 /\ \A i \in 2..5 : b[i] >= 128

\* C10: the blocking decode and the async parse both fail with
\* MalformedRemainingLength when four continuation bytes are followed by a
\* fifth byte, whatever the type byte; a header that is returned was read
\* from at most four remaining-length bytes and carries at most 2^28 - 1.
C10_MalformedRemainingLength ==
    (hpc = "done") =>
        /\ NeedsFifthByte(hbytes) =>
              /\ ~hres.r.ok
              /\ Outer(hres.r.err) = "FixedHeaderError::MalformedRemainingLength"
        /\ hres.r.ok =>
              /\ hres.r.pos <= 5
              /\ hres.r.val.remaining_length <= 268435455

C10_WitnessDecode ==
    /\ hpc = "done" /\ hres.op = "decode"
    /\ hbytes = <<240, 128, 128, 128, 128, 2>>
    /\ ~hres.r.ok

C10_WitnessParse ==
    /\ hpc = "done" /\ hres.op = "parse"
    /\ hbytes = <<16, 128, 128, 128, 128, 2>>
    /\ ~hres.r.ok

C10_Witness == C10_WitnessDecode \/ C10_WitnessParse

\* The fixed header decoders got past the remaining length of hbytes.
LengthRead == Len(hbytes) >= 2 /\ DecodeRemainingLength(hbytes, 1).ok

\* The flag nibble MQTT prescribes for the type with high nibble hi.
RequiredNibble(hi) == IF hi \in {6, 8, 10} THEN 2 ELSE 0

\* C11: a type/flag byte is accepted iff its high nibble is in 1..14 and,
\* unless the type is PUBLISH, its low nibble is the one required for the
\* type; high nibble 0 or 15 gives ReservedType, a wrong low nibble gives
\* InvalidFlag; PacketType::with_default carries the required nibble.
C11_TypeFlagByte ==
    /\ (hpc = "done" /\ LengthRead) =>
          LET hi == hbytes[1] \div 16
              lo == hbytes[1] % 16
          IN  /\ hres.r.ok <=> (hi \in 1..14 /\ (hi = 3 \/ lo = RequiredNibble(hi)))
              /\ hi \in {0, 15} =>
                    /\ ~hres.r.ok
                    /\ Outer(hres.r.err) = "FixedHeaderError::ReservedType"
                    /\ hres.r.err.code = hi
              /\ (hi \in 1..14 /\ hi # 3 /\ lo # RequiredNibble(hi)) =>
                    /\ ~hres.r.ok
                    /\ hres.r.err.tags =
                          <<"FixedHeaderError::PacketTypeError", "PacketTypeError::InvalidFlag">>
              /\ hres.r.ok =>
                    /\ ControlType_value(hres.r.val.packet_type.control_type) = hi
                    /\ hres.r.val.packet_type.flags = lo
    /\ (hpc # "new" /\ hdr # NoHeader) =>
          /\ hdr.packet_type.flags = RequiredNibble(ControlType_value(hdr.packet_type.control_type))
          /\ hbytes[1] % 16 = hdr.packet_type.flags

C11_WitnessAccepted ==
    /\ hpc = "done" /\ hbytes = <<130, 0>> /\ hres.r.ok
    /\ hres.r.val.packet_type = PacketType_with_default("Subscribe")

C11_WitnessInvalidFlag ==
    /\ hpc = "done" /\ hbytes = <<128, 0>> /\ ~hres.r.ok

C11_Witness == C11_WitnessAccepted \/ C11_WitnessInvalidFlag

\* C12: a PUBLISH type/flag byte with both QoS bits set (QoS 3) is rejected
\* with InvalidFlag by the fixed header decoders.
C12_PublishQoS3Rejected ==
    (hpc = "done" /\ LengthRead /\ hbytes[1] \div 16 = 3 /\ (hbytes[1] \div 2) % 4 = 3) =>
        /\ ~hres.r.ok
        /\ hres.r.err.tags =
              <<"FixedHeaderError::PacketTypeError", "PacketTypeError::InvalidFlag">>

----------------------------------------------------------------------------
(* Properties of CONNECT (Spec).                                           *)

IsConnect == pc \in {"built", "encoded", "decoded"} /\ packet.name = "ConnectPacket"

\* Each flag bit is set exactly when the payload holds its field.
FlagsFollowPayload(pk) ==
    /\ pk.flags.user_name = (pk.payload.user_name # <<>>)
    /\ pk.flags.password = (pk.payload.password # <<>>)
    /\ pk.flags.will_flag = (pk.payload.will_topic # <<>> /\ pk.payload.will_message # <<>>)
    /\ (pk.payload.will_topic # <<>>) = (pk.payload.will_message # <<>>)

\* A length-prefixed string: two bytes of length, high byte first.
Prefixed(str) == <<Len(str) \div 256, Len(str) % 256>> \o str

PrefixedIf(o) == IF o = <<>> THEN <<>> ELSE Prefixed(o[1])

\* Client identifier, will topic, will message, user name, password.
PayloadInOrder(pl) ==
    Prefixed(pl.client_identifier) \o PrefixedIf(pl.will_topic) \o PrefixedIf(pl.will_message)
        \o PrefixedIf(pl.user_name) \o PrefixedIf(pl.password)

EndsWith(b, tail) == Len(b) >= Len(tail) /\ SubSeq(b, Len(b) - Len(tail) + 1, Len(b)) = tail

\* C19: in every ConnectPacket, as constructed, after any setters and as
\* decoded, the user_name, password and will_flag bits are set exactly when
\* the payload holds a user name, a password, a will topic with a will
\* message; encode writes the payload fields in the order client identifier,
\* will topic, will message, user name, password, and decode reads them back
\* into the same fields.
C19_ConnectFlagsFollowPayload ==
    IsConnect =>
        /\ FlagsFollowPayload(packet)
        /\ pc \in {"encoded", "decoded"} => EndsWith(wire, PayloadInOrder(packet.payload))
        /\ DecodedAll =>
              /\ res.typed.ok /\ res.variable.ok
              /\ FlagsFollowPayload(res.typed.val) /\ FlagsFollowPayload(res.variable.val)
              /\ res.typed.val.payload = packet.payload
              /\ res.variable.val.payload = packet.payload

\* A CONNECT with will, user name and password was set up, encoded and
\* decoded.
C19_Witness ==
    /\ IsConnect /\ DecodedAll /\ res.typed.ok
    /\ packet.payload.will_topic = <<<<116>>>> /\ packet.payload.will_message = <<<<109>>>>
    /\ packet.payload.user_name = <<<<117>>>> /\ packet.payload.password = <<<<112, 119>>>>
    /\ packet.flags.user_name /\ packet.flags.password /\ packet.flags.will_flag

\* The protocol name that belongs to a protocol level: "MQTT" to 4, "MQIsdp"
\* to 3.
NameFitsLevel(pk) ==
    /\ pk.protocol_level = 4 => pk.protocol_name = <<77, 81, 84, 84>>
    /\ pk.protocol_level = 3 => pk.protocol_name = <<77, 81, 73, 115, 100, 112>>

\* C20: every CONNECT that a constructor built or the decoder accepted has
\* the protocol name "MQTT" with level 4 and "MQIsdp" with level 3.
C20_ProtocolNameFitsLevel ==
    IsConnect =>
        /\ NameFitsLevel(packet)
        /\ (pc = "decoded" /\ res.typed.ok) => NameFitsLevel(res.typed.val)
        /\ (pc = "decoded" /\ res.variable.ok) => NameFitsLevel(res.variable.val)

----------------------------------------------------------------------------
(* SpecCodec: the streaming decoder.  Packets are encoded onto a transport *)
(* that delivers their bytes in chunks cut at any boundary into the        *)
(* decoder's buffer; the decoder is called on the buffer.  The decoder's   *)
(* two states and its answers are those of the specification's streaming   *)
(* codec; the fixed header and the packet bodies are read by the code's    *)
(* FixedHeader::decode and decode_packet.                                  *)

\* How many packets are written.
MaxCodecPackets == 2

CodecPackets ==
    { ConnectPacket_new(<<99, 49>>),
      SubscribePacket_new(10, << [filter |-> <<97, Slash, Hash>>, qos |-> 1] >>),
      EmptyPacket_new("PingreqPacket"),
      PublishPacket_new(<<97>>, Level0, <<72, 105>>) }

AwaitBody(header) ==
    [state |-> "AwaitBody", length |-> header.remaining_length, header |-> header]

\* What one call of the decoder leaves and returns.
CodecAnswer(state, buf, ret, val) == [state |-> state, buf |-> buf, ret |-> ret, val |-> val]

\* AwaitBody: "need more" until `length` bytes are buffered; then the body
\* is taken off the buffer and decoded, and the state is AwaitHeader again.
CodecBody(state, buf, checks) ==
    IF Len(buf) < state.length THEN CodecAnswer(state, buf, "need more", NoPacket)
    ELSE IF decode_packet(PacketNames[state.header.packet_type.control_type],
                          SubSeq(buf, 1, state.length), 0, state.header, checks).ok
    THEN CodecAnswer(AwaitHeader, SubSeq(buf, state.length + 1, Len(buf)), "packet",
             decode_packet(PacketNames[state.header.packet_type.control_type],
                           SubSeq(buf, 1, state.length), 0, state.header, checks).val)
    ELSE CodecAnswer(AwaitHeader, SubSeq(buf, state.length + 1, Len(buf)), "error",
             decode_packet(PacketNames[state.header.packet_type.control_type],
                           SubSeq(buf, 1, state.length), 0, state.header, checks).err)

\* AwaitHeader: "need more" until the fixed header is complete; a header
\* that cannot be parsed is surfaced as an error; a parsed one is taken off
\* the buffer and the call goes on in AwaitBody.
CodecHeader(buf, checks) ==
    IF FixedHeader_decode_with(buf).ok
    THEN CodecBody(AwaitBody(FixedHeader_decode_with(buf).val),
                   SubSeq(buf, FixedHeader_decode_with(buf).pos + 1, Len(buf)), checks)
    ELSE IF FixedHeader_decode_with(buf).err.tags[Len(FixedHeader_decode_with(buf).err.tags)]
                = "io::UnexpectedEof"
    THEN CodecAnswer(AwaitHeader, buf, "need more", NoPacket)
    ELSE CodecAnswer(AwaitHeader, <<>>, "error", FixedHeader_decode_with(buf).err)

\* One call of the streaming decoder on the buffer.
Codec_decode(state, buf, checks) ==
    IF state.state = "AwaitHeader" THEN CodecHeader(buf, checks)
    ELSE CodecBody(state, buf, checks)

InitCodec ==
    /\ csent = <<>> /\ cwire = <<>> /\ cbuf = <<>> /\ cstate = AwaitHeader /\ cout = <<>>
    /\ clast = "none"
    /\ IdlePacket /\ IdleStream /\ IdleHeader /\ IdleTopic

\* packet.encode(&mut transport)
CodecWrite ==
    /\ Len(csent) < MaxCodecPackets
    /\ \E p \in CodecPackets :
          /\ csent' = Append(csent, p)
          /\ cwire' = cwire \o Packet_encode(p)
    /\ UNCHANGED <<cbuf, cstate, cout, clast, pkvars, stvars, fhvars, tpvars>>

\* The transport delivers the next chunk, of any length.
CodecFeed ==
    /\ cwire # <<>>
    /\ \E n \in 1..Len(cwire) :
          /\ cbuf' = cbuf \o SubSeq(cwire, 1, n)
          /\ cwire' = SubSeq(cwire, n + 1, Len(cwire))
    /\ clast' = "none"
    /\ UNCHANGED <<csent, cstate, cout, pkvars, stvars, fhvars, tpvars>>

\* The decoder answered a.
CodecAnswered(a) ==
    /\ cstate' = a.state /\ cbuf' = a.buf /\ clast' = a.ret
    /\ cout' = IF a.ret = "packet" THEN Append(cout, a.val) ELSE cout
    /\ UNCHANGED <<csent, cwire, pkvars, stvars, fhvars, tpvars>>

\* decoder.decode(&mut buffer)
CodecDecode == \E checks \in OverflowChecks : CodecAnswered(Codec_decode(cstate, cbuf, checks))

NextCodec == CodecWrite \/ CodecFeed \/ CodecDecode

SpecCodec == InitCodec /\ [][NextCodec]_vars

----------------------------------------------------------------------------
(* Properties of PUBLISH (Spec).                                           *)

IsPublish == pc \in {"built", "encoded", "decoded"} /\ packet.name = "PublishPacket"

\* 2 + topic length + (2 if QoS > 0) + payload length
PublishBodyLength(pk, q) ==
    2 + Len(pk.topic_name) + (IF q.level > 0 THEN 2 ELSE 0) + Len(pk.payload)

\* Topic name with its 16-bit length, the packet identifier iff QoS > 0, the
\* payload bytes as they are.
PublishBody(pk, q) ==
    Prefixed(pk.topic_name)
        \o (IF q.level > 0 THEN <<q.pkid \div 256, q.pkid % 256>> ELSE <<>>)
        \o pk.payload

\* C26: after any calls of set_dup, set_retain and set_qos, dup(), retain()
\* and qos() of a PublishPacket return the value last given to the
\* corresponding setter (FALSE, FALSE and the QoS given to new before the
\* first call; qos() does not panic), and the flag nibble carries DUP in
\* bit 3, QoS in bits 2..1 and RETAIN in bit 0.
C26_PublishFlagAccessors ==
    (IsPublish /\ pc = "built") =>
        /\ PublishPacket_dup(packet) = lastset.dup
        /\ PublishPacket_retain(packet) = lastset.retain
        /\ PublishPacket_qos(packet) = lastq
        /\ packet.fixed_header.packet_type.flags =
              Bit(lastset.dup) * 8 + lastq.level * 2 + Bit(lastset.retain)

\* C21: the encoding of a PUBLISH built by PublishPacket::new is the byte
\* 0x30 | QoS << 1 (DUP and RETAIN are clear), the remaining length
\* 2 + topic length + (2 if QoS > 0) + payload length, the length-prefixed
\* topic name, the packet identifier iff QoS > 0, and the payload bytes with
\* no length prefix.
C21_PublishWireFormat ==
    (IsPublish /\ fresh /\ pc \in {"encoded", "decoded"}) =>
        /\ packet.fixed_header.remaining_length = PublishBodyLength(packet, lastq)
        /\ wire = <<48 + 2 * lastq.level>>
                    \o EncodeRemainingLength(PublishBodyLength(packet, lastq))
                    \o PublishBody(packet, lastq)

----------------------------------------------------------------------------
(* Properties of CONNACK (Spec, SpecPeer).                                 *)

\* C27 (built packets): session_present() and return_code() of a
\* ConnackPacket return the values given to new or last set, no getter or
\* setter panics, and the remaining length stays 2.
C27_ConnackAccessors ==
    /\ pc # "panicked"
    /\ IsBuilt("ConnackPacket") =>
          /\ ConnackPacket_session_present(packet) = Returned(lastset.session_present)
          /\ ConnackPacket_return_code(packet) = Returned(lastset.return_code)
          /\ packet.fixed_header.remaining_length = 2

----------------------------------------------------------------------------
(* Properties of topic names and topic filters (SpecTopic).                *)

TopicNameOps == {"TopicName::new", "TopicNameRef::new", "TopicName::decode"}

TopicFilterOps == {"TopicFilter::new", "TopicFilter::decode"}

\* Non-empty, at most 65535 bytes, neither '#' nor '+'.
ValidTopicName(str) ==
    /\ Len(str) >= 1 /\ Len(str) <= 65535
    /\ \A i \in 1..Len(str) : str[i] # 35 /\ str[i] # 43

\* The innermost variant of an error.
Inner(e) == e.tags[Len(e.tags)]

\* C15: TopicName::new, TopicNameRef::new and TopicName::decode accept a
\* string exactly when it is non-empty, at most 65535 bytes long and free of
\* '#' and '+'; they return the string as the topic name, or a
\* TopicNameError that carries the string.
C15_TopicNameValidity ==
    (tpc = "done" /\ tout.op \in TopicNameOps) =>
        /\ tout.r.ok = ValidTopicName(tstr)
        /\ tout.r.ok => tout.r.val = tstr
        /\ ~tout.r.ok => Inner(tout.r.err) = "TopicNameError" /\ tout.r.err.str = tstr

\* "/finance//def" was accepted by TopicName::new.
C15_Witness ==
    /\ tpc = "done" /\ tout.op = "TopicName::new" /\ tout.r.ok
    /\ tstr = <<47, 102, 105, 110, 97, 110, 99, 101, 47, 47, 100, 101, 102>>

\* The level around the k-th byte starts at that byte: the byte is the first
\* of the string or has a '/' before it.
LevelStartsAt(str, k) == k = 1 \/ str[k - 1] = 47

\* The level around the k-th byte ends with that byte.
LevelEndsAt(str, k) == k = Len(str) \/ str[k + 1] = 47

\* Non-empty, at most 65535 bytes, and of the levels between the '/'
\* separators each one that holds a '+' is exactly "+" and each one that
\* holds a '#' is exactly "#" and the last one.
ValidTopicFilter(str) ==
    /\ Len(str) >= 1 /\ Len(str) <= 65535
    /\ \A k \in 1..Len(str) :
          /\ str[k] = 43 => LevelStartsAt(str, k) /\ LevelEndsAt(str, k)
          /\ str[k] = 35 => LevelStartsAt(str, k) /\ k = Len(str)

\* C16: TopicFilter::new and TopicFilter::decode accept a string exactly when
\* it is non-empty, at most 65535 bytes long, every level holding a '#' is
\* exactly "#" and the last level, and every level holding a '+' is exactly
\* "+".
C16_TopicFilterValidity ==
    (tpc = "done" /\ tout.op \in TopicFilterOps) =>
        /\ tout.r.ok = ValidTopicFilter(tfil)
        /\ tout.r.ok => tout.r.val = tfil
        /\ ~tout.r.ok =>
              /\ Inner(tout.r.err) = "TopicFilterError::InvalidTopicFilter"
              /\ tout.r.err.str = tfil

\* "sport/+/player1" was accepted by TopicFilter::new.
C16_Witness ==
    /\ tpc = "done" /\ tout.op = "TopicFilter::new" /\ tout.r.ok
    /\ tfil = <<115, 112, 111, 114, 116, 47, 43, 47, 112, 108, 97, 121, 101, 114, 49>>

\* The number of a filter's levels that stand before its trailing "#".
LevelsBeforeHash(flv) == IF flv[Len(flv)] = <<35>> THEN Len(flv) - 1 ELSE Len(flv)

\* The level-by-level reference: a first level of the name that starts with
\* '$' must be the filter's first level; the name has as many levels as the
\* filter, or at least as many as stand before the filter's trailing "#";
\* each of these filter levels is "+" or is the name's level.
LevelMatch(flv, nlv) ==
    /\ (Len(nlv[1]) > 0 /\ nlv[1][1] = 36) => flv[1] = nlv[1]
    /\ IF LevelsBeforeHash(flv) < Len(flv)
       THEN Len(nlv) >= LevelsBeforeHash(flv)
       ELSE Len(nlv) = LevelsBeforeHash(flv)
    /\ \A i \in 1..LevelsBeforeHash(flv) : flv[i] = <<43>> \/ flv[i] = nlv[i]

\* C17: for a valid topic filter and a valid topic name, is_match returns
\* what the level-by-level reference says.
C17_MatcherFollowsLevels ==
    (tpc = "done" /\ tout.op = "is_match") =>
        tout.r = LevelMatch(SplitLevels(tfil, <<>>), SplitLevels(tstr, <<>>))

\* "a/#" matched "a": the trailing '#' stands for no level at all.
C17_Witness ==
    /\ tpc = "done" /\ tout.op = "is_match"
    /\ tfil = <<97, 47, 35>> /\ tstr = <<97>> /\ tout.r = TRUE

\* C18: "#" matches exactly the topic names that do not start with '$', and
\* no filter whose first level is "#" or "+" matches a topic name that starts
\* with '$'.
C18_DollarTopics ==
    (tpc = "done" /\ tout.op = "is_match") =>
        /\ tfil = <<35>> => (tout.r = (tstr[1] # 36))
        /\ (tstr[1] = 36 /\ SplitLevels(tfil, <<>>)[1] \in {<<35>>, <<43>>}) => ~tout.r

\* "$SYS/#" matched "$SYS/x": a filter that names the '$' level can match.
C18_Witness ==
    /\ tpc = "done" /\ tout.op = "is_match" /\ tout.r = TRUE
    /\ tfil = <<36, 83, 89, 83, 47, 35>> /\ tstr = <<36, 83, 89, 83, 47, 120>>

----------------------------------------------------------------------------
(* Properties of the decoders on peer bytes (SpecPeer).                    *)

PeerAnswer(op) == pc = "answered" /\ res.op = op

BitOf(code, n) == (code \div (2 ^ n)) % 2 = 1

\* CONNECT layout: bit 7 user name, bit 6 password, bit 5 will retain,
\* bits 4..3 will QoS, bit 2 will flag, bit 1 clean session.
ConnectLayout(f, code) ==
    /\ f.user_name = BitOf(code, 7) /\ f.password = BitOf(code, 6)
    /\ f.will_retain = BitOf(code, 5) /\ f.will_qos = (code \div 8) % 4
    /\ f.will_flag = BitOf(code, 2) /\ f.clean_session = BitOf(code, 1)

InvalidReservedFlag(r) ==
    ~r.ok /\ Inner(r.err) = "VariableHeaderError::InvalidReservedFlag"

\* C22: a CONNECT flags byte with bit 0 set and a CONNACK flags byte with
\* any of bits 7..1 set fail to decode with InvalidReservedFlag; every
\* other byte decodes to the flags of the layout, and encoding the decoded
\* flags gives the byte back.
C22_ReservedFlagBits ==
    /\ PeerAnswer("ConnectFlags::decode") =>
          IF wire[1] % 2 = 1 THEN InvalidReservedFlag(res.r)
          ELSE /\ res.r.ok /\ ConnectLayout(res.r.val, wire[1])
               /\ ConnectFlags_encode(res.r.val) = wire
    /\ PeerAnswer("ConnackFlags::decode") =>
          IF wire[1] > 1 THEN InvalidReservedFlag(res.r)
          ELSE /\ res.r.ok /\ res.r.val.session_present = (wire[1] = 1)
               /\ ConnackFlags_encode(res.r.val) = wire

\* CONNACK flags 0x02 were refused.
C22_Witness ==
    /\ PeerAnswer("ConnackFlags::decode") /\ wire = <<2>> /\ InvalidReservedFlag(res.r)

\* A decoder for packets of control type byte `first \div 16` answered on a
\* frame whose declared remaining length is at least `least` and whose bytes
\* are all there.
PacketAnswer(name, first, least) ==
    /\ pc = "answered"
    /\ \/ res.op = "decode" /\ res.name = name
       \/ res.op = "VariablePacket::decode"
    /\ wire[1] \div 16 = first
    /\ wire[2] >= least /\ Len(wire) >= 2 + wire[2]

\* The declared payload behind a packet identifier.
DeclaredPayload == SubSeq(wire, 5, 2 + wire[2])

ReturnCodeOf(code) ==
    CASE code = 0 -> "MaximumQoSLevel0" [] code = 1 -> "MaximumQoSLevel1"
      [] code = 2 -> "MaximumQoSLevel2" [] code = 128 -> "Failure"

BadReturnCodes(payload) == {i \in 1..Len(payload) : payload[i] \notin {0, 1, 2, 128}}

FirstOf(S) == CHOOSE i \in S : \A j \in S : i <= j

\* C23: decoding a SUBACK whose remaining length covers the packet
\* identifier returns one return code per payload byte, in wire order
\* (0, 1, 2, 0x80 as MaximumQoSLevel0, 1, 2, Failure), having read exactly
\* remaining length - 2 payload bytes; with a byte b outside these four it
\* returns InvalidSubscribeReturnCode(b) for the first such byte and no packet.
C23_SubackReturnCodes ==
    PacketAnswer("SubackPacket", 9, 2) =>
        IF BadReturnCodes(DeclaredPayload) = {}
        THEN /\ res.r.ok
             /\ res.r.val.subscribes =
                   [i \in 1..Len(DeclaredPayload) |-> ReturnCodeOf(DeclaredPayload[i])]
             /\ res.r.pos = 2 + wire[2]
        ELSE /\ ~res.r.ok
             /\ Inner(res.r.err) = "SubackPacketPayloadError::InvalidSubscribeReturnCode"
             /\ res.r.err.code = DeclaredPayload[FirstOf(BadReturnCodes(DeclaredPayload))]

\* 90 05 00 0A 00 02 80 gave [MaximumQoSLevel0, MaximumQoSLevel2, Failure].
C23_Witness ==
    /\ PacketAnswer("SubackPacket", 9, 2) /\ wire = <<144, 5, 0, 10, 0, 2, 128>>
    /\ res.r.ok /\ res.r.val.subscribes = <<"MaximumQoSLevel0", "MaximumQoSLevel2", "Failure">>

\* The decoder did not return: the thread panicked on a u32 subtraction.
Panicked(r) == ~r.ok /\ r.err = SubtractOverflow

\* The QoS bytes of the (filter, QoS) entries that lie within the declared
\* payload d, from offset i on.
RECURSIVE QosBytes(_, _)
QosBytes(d, i) ==
    IF i + 2 > Len(d) \/ i + 3 + d[i + 1] * 256 + d[i + 2] > Len(d) THEN <<>>
    ELSE <<d[i + 3 + d[i + 1] * 256 + d[i + 2]]>>
            \o QosBytes(d, i + 3 + d[i + 1] * 256 + d[i + 2])

\* The entries as they are written on the wire.
SubscribeEntries(subscribes) ==
    Flatten([i \in 1..Len(subscribes) |->
                Prefixed(subscribes[i].filter) \o <<subscribes[i].qos>>])

UnsubscribeEntries(subscribes) ==
    Flatten([i \in 1..Len(subscribes) |-> Prefixed(subscribes[i])])

\* C24: on a SUBSCRIBE whose remaining length covers the packet identifier
\* the decoder returns a value for every input; a returned packet holds, in
\* wire order, exactly the (filter, QoS) tuples of the declared payload and
\* nothing behind it was read; an empty payload gives an empty list; a QoS
\* byte greater than 2 gives InvalidQualityOfService.  The same for the
\* filters of UNSUBSCRIBE.
C24_SubscribeTuples ==
    /\ PacketAnswer("SubscribePacket", 8, 2) =>
          /\ ~Panicked(res.r)
          /\ res.r.ok => /\ SubscribeEntries(res.r.val.subscribes) = DeclaredPayload
                         /\ res.r.pos = 2 + wire[2]
          /\ DeclaredPayload = <<>> => res.r.ok /\ res.r.val.subscribes = <<>>
          /\ (\E i \in 1..Len(QosBytes(DeclaredPayload, 0)) :
                 QosBytes(DeclaredPayload, 0)[i] > 2) =>
                /\ ~res.r.ok
                /\ Inner(res.r.err) = "SubscribePacketPayloadError::InvalidQualityOfService"
    /\ PacketAnswer("UnsubscribePacket", 10, 2) =>
          /\ ~Panicked(res.r)
          /\ res.r.ok => /\ UnsubscribeEntries(res.r.val.subscribes) = DeclaredPayload
                         /\ res.r.pos = 2 + wire[2]
          /\ DeclaredPayload = <<>> => res.r.ok /\ res.r.val.subscribes = <<>>

----------------------------------------------------------------------------
(* Properties of the streaming decoder (SpecCodec).                        *)

EncodeAll(pks) == Flatten([i \in 1..Len(pks) |-> Packet_encode(pks[i])])

\* The bytes of the frame that the decoder is in the middle of.
CodecPending ==
    IF cstate.state = "AwaitBody" THEN FixedHeader_encode(cstate.header) ELSE <<>>

\* No byte is lost: the yielded packets, the header held in the state, the
\* buffer and the transport make up what was written.
CodecKeepsBytes ==
    EncodeAll(csent) = EncodeAll(cout) \o CodecPending \o cbuf \o cwire

\* The buffer (with the state) holds a whole frame.
FrameBuffered ==
    IF cstate.state = "AwaitBody" THEN Len(cbuf) >= cstate.length
    ELSE /\ FixedHeader_decode_with(cbuf).ok
         /\ Len(cbuf) >= FixedHeader_decode_with(cbuf).pos
                            + FixedHeader_decode_with(cbuf).val.remaining_length

\* A step of the decoder: nothing was written and nothing delivered.
DecoderStep == csent' = csent /\ cwire' = cwire

\* With a whole frame buffered a call yields the next of the packets
\* written and leaves the decoder in AwaitHeader; otherwise it answers
\* "need more" and yields nothing.  Nothing else yields a packet.
NextYielded ==
    /\ (DecoderStep /\ FrameBuffered) =>
          /\ Len(cout) < Len(csent)
          /\ cout' = Append(cout, csent[Len(cout) + 1])
          /\ cstate' = AwaitHeader
    /\ (DecoderStep /\ ~FrameBuffered) => (clast' = "need more" /\ cout' = cout)
    /\ ~DecoderStep => cout' = cout

\* Everything was delivered and the decoder asks for more: every packet
\* written was yielded and the decoder waits for a header on an empty buffer.
CodecQuiet ==
    (cwire = <<>> /\ clast = "need more") =>
        (cout = csent /\ cbuf = <<>> /\ cstate = AwaitHeader)

\* C25: fed the encodings of any packets in chunks cut anywhere, the
\* streaming decoder answers "need more" while the frame is incomplete and
\* loses no byte, yields each packet written once and in the original
\* order as soon as its last byte is buffered, is in AwaitHeader after each,
\* and answers "need more" on the empty buffer after the last packet.
C25_StreamingDecoder ==
    /\ [](CodecKeepsBytes /\ CodecQuiet)
    /\ [][NextYielded]_vars

\* A decoder, typed or VariablePacket::decode, handed a packet back.
Decoded ==
    /\ pc = "answered"
    /\ res.op \in {"decode", "VariablePacket::decode"}
    /\ res.r.ok

\* The packets whose only variable header is a packet identifier and whose
\* payload is empty.
IdentifierOnly ==
    {"PubackPacket", "PubrecPacket", "PubrelPacket", "PubcompPacket", "UnsubackPacket"}

\* C28: every packet a decoder returns holds a remaining length equal to the
\* encoded length of its variable headers plus that of its payload: 2 for
\* PUBACK, PUBREC, PUBREL, PUBCOMP and UNSUBACK, 0 for PINGREQ, PINGRESP and
\* DISCONNECT; a frame of such a type declaring another length is refused.
C28_DecodedRemainingLength ==
    Decoded =>
        /\ res.r.val.fixed_header.remaining_length
              = encoded_variable_headers_length(res.r.val) + payload_encoded_length(res.r.val)
        /\ res.r.val.name \in IdentifierOnly => res.r.val.fixed_header.remaining_length = 2
        /\ res.r.val.name \in DOMAIN EmptyPackets =>
              res.r.val.fixed_header.remaining_length = 0

\* The control type of each packet structure.
ControlTypeOf(name) == CHOOSE t \in DOMAIN PacketNames : PacketNames[t] = name

\* C29: a typed decoder that reads its own fixed header hands a packet back
\* only if the header's control type is the one of its packet type; every
\* decoded packet holds a fixed header of its own control type.
C29_TypedDecoderChecksType ==
    Decoded =>
        res.r.val.fixed_header.packet_type.control_type = ControlTypeOf(res.r.val.name)

\* The packets whose decode_packet subtracts what it has read from the
\* remaining length.
Subtracting == {"PublishPacket", "SubscribePacket", "SubackPacket", "UnsubscribePacket"}

\* A typed decoder of such a packet answered on a frame whose remaining
\* length is below the two bytes every one of them reads before its payload.
ShortFrame ==
    /\ PeerAnswer("decode")
    /\ res.name \in Subtracting
    /\ Len(wire) >= 2 /\ wire[2] < 2

\* C30: the subtractions `remaining_length - consumed` and
\* `payload_len -= entry_length` never go below zero in any decoder, and a
\* frame whose remaining length is smaller than the fields before the payload
\* is answered with an error value.
C30_NoSubtractOverflow ==
    /\ (pc = "answered" /\ res.op \in {"decode", "VariablePacket::decode"}) =>
          ~Panicked(res.r)
    /\ ShortFrame => ~res.r.ok


=============================================================================
